---- MODULE Spec2Model ----
(***************************************************************************)
(* Models of the concurrent example programs of golang_roadmap.            *)
(*                                                                         *)
(* Part 1: the worker pool of                                              *)
(*   02_core_language/02_concurrent_workers_w_channels_context/            *)
(*   concurrent_workers.go                                                 *)
(* Part 2: the asynchronous calls of the net/rpc client, 09_rpc/01_net_rpc *)
(* Part 3: the users API of 08_web_development/01_net_http/main.go         *)
(* Part 4: the methods of ArithService, 09_rpc/01_net_rpc/main.go, called  *)
(*         one at a time                                                   *)
(* Part 5: GreetUser and the stores of its tests,                          *)
(*         04_Tooling_testing_and_code_quality/05_mocks_and_stubs          *)
(* Part 6: the router of 04_Tooling_testing_and_code_quality/06_httptest   *)
(* Part 7: the Bubble Tea counter in 03_std_lib/01_fileio_and_json         *)
(* Part 8: package mathutil of 04_Tooling_testing_and_code_quality/        *)
(*         01_testing                                                      *)
(* Part 9: the errWriter of the error-handling example                     *)
(* Part 10: the select loop of 02_core_language/                           *)
(*          18_select_mutexes_and_waitgroups/select_mutexes_waitgroups.go  *)
(* Part 11: the counters of goroutine_simple.go, without and with a mutex  *)
(* Part 12: the channel-serialized updates of select_mutexes_waitgroups.go *)
(***************************************************************************)
EXTENDS Integers, Sequences, FiniteSets, Bags, TLC

(***************************************************************************)
(* Bounds. The pool is checked for every number of workers 1..MaxWorkers   *)
(* and every number of jobs 1..MaxJobs (main itself sets numWorkers := 3   *)
(* and numJobs := 10; nothing in the program depends on the two values).   *)
(***************************************************************************)
MaxWorkers == 2

MaxJobs == 3

VARIABLES
    numWorkers,   \* main: numWorkers
    numJobs,      \* main: numJobs
    ctxDone,      \* ctx.Done() is closed (the timeout fired)
    jobs,         \* the unbuffered jobs channel: [closed]
    results,      \* the unbuffered results channel: [closed]
    wg,           \* the WaitGroup counter
    workers,      \* worker w: [pc, job, res, exit]
    dispatcher,   \* the goroutine that sends the jobs: [pc, j]
    collector,    \* the goroutine that collects the results: [pc, r]
    collected,    \* bag of the Results the collector printed
    mainPc,       \* position of main
    mainW,        \* main: loop variable w of the start loop
    outcome,      \* what main printed in its final select
    panic,        \* a run-time panic of the Go runtime, "none" if none
    rAtTimeout    \* history: Results the collector had when the timeout fired

poolVars == <<numWorkers, numJobs, ctxDone, jobs, results, wg, workers,
              dispatcher, collector, collected, mainPc, mainW, outcome,
              panic, rAtTimeout>>

VARIABLES
    rpcPc,        \* runClient: [stmt, phase], its position in ClientProgram
    rpcSeq,       \* rpc.Client: the sequence number of the next call
    rpcPending,   \* rpc.Client: sequence number -> where the call's Reply points
    rpcCall,      \* runClient: the *Call values: call variable -> sequence number
    rpcDone,      \* sequence number -> what the call's Done channel holds
    rpcErr,       \* runClient: the Error of the call last received from Done
    toServer,     \* the connection, client to server: requests in order
    serving,      \* the server's goroutines that have yet to call their method
    responding,   \* the server's goroutines that have yet to write their response
    toClient,     \* the connection, server to client: responses in order
    inputCall,    \* the client's input goroutine: the call it is completing
    mem,          \* runClient's variables reply, floatReply, stringReply
    stdout        \* what runClient printed, in order

rpcVars == <<rpcPc, rpcSeq, rpcPending, rpcCall, rpcDone, rpcErr, toServer,
             serving, responding, toClient, inputCall, mem, stdout>>

VARIABLES
    users,        \* var users []User
    nextID,       \* var nextID
    mu,           \* var mu sync.Mutex: the connection that holds it, 0 if free
    conns,        \* the handler goroutine of connection c: [pc, req, u]
    lastResp      \* the response the server wrote last, with its request

httpVars == <<users, nextID, mu, conns, lastResp>>

VARIABLES
    arithArgs,    \* args *Args of the call
    arithReply0,  \* the caller's reply and floatReply before the call
    arithMethod,  \* the method of ArithService that was called, "" before
    arithReply,   \* the caller's reply and floatReply
    arithErr      \* the error the method returned

arithVars == <<arithArgs, arithReply0, arithMethod, arithReply, arithErr>>

VARIABLES
    greetStore0,  \* the store before the call of GreetUser
    greetId,      \* the id GreetUser is called with
    greetCalled,  \* GreetUser has returned
    greetStore,   \* the store
    greetOut      \* what GreetUser returned, and its calls of the store

greetVars == <<greetStore0, greetId, greetCalled, greetStore, greetOut>>

VARIABLES
    routerReq,    \* the request given to the router
    routerResp    \* the response the router wrote, status 0 before

routerVars == <<routerReq, routerResp>>

VARIABLES
    teaModel,     \* the model the program holds: the counter
    teaPrev,      \* the model before the last Update
    teaMsg,       \* the message of the last Update
    teaCmd,       \* the command the last Update returned
    teaQuit,      \* "no", "pending" (tea.Quit returned), "done" (program over)
    teaUps,       \* history: the "up" and "k" keys Update was given
    teaDowns      \* history: the "down" and "j" keys Update was given

teaVars == <<teaModel, teaPrev, teaMsg, teaCmd, teaQuit, teaUps, teaDowns>>

VARIABLES
    mathA,        \* the argument a
    mathB,        \* the argument b
    mathFn,       \* the function of mathutil that was called, "" before
    mathGot       \* what it returned

mathVars == <<mathA, mathB, mathFn, mathGot>>

VARIABLES
    ewErr,        \* errWriter: field err
    ewW,          \* errWriter: field w, by the calls of its Write so far
    ewCalls,      \* the number of Write and Printf calls on the errWriter
    ewRet         \* the error the last Write or Printf returned

ewVars == <<ewErr, ewW, ewCalls, ewRet>>

VARIABLES
    selWorkers,   \* worker id: [pc, failed]
    selWg,        \* var wg sync.WaitGroup: its counter
    selDone,      \* the done channel is closed
    selMain,      \* position of main: "select", "drain", "after"
    selGot,       \* worker id: the results and the errors main received of it
    selDrained,   \* the messages main received in its drain loop
    selWaits      \* the "waiting..." lines main printed

selVars ==
    <<selWorkers, selWg, selDone, selMain, selGot, selDrained, selWaits>>

VARIABLES
    gorMain,      \* position of main: [pc, i]
    counter,      \* counter
    gorRace,      \* goroutine of the first loop: [pc, tmp]
    wgRace,       \* var wgRace sync.WaitGroup: its counter
    gorPrinted,   \* the counter main printed, -1 before
    safeCounter,  \* safeCounter
    gorMu,        \* var mu sync.Mutex: the goroutine that holds it, 0 if free
    gorSafe,      \* goroutine of the second loop: [pc, tmp]
    wgSafe,       \* var wgSafe sync.WaitGroup: its counter
    gorSafePrinted \* the safeCounter main printed, -1 before

gorVars ==
    <<gorMain, counter, gorRace, wgRace, gorPrinted, safeCounter, gorMu,
      gorSafe, wgSafe, gorSafePrinted>>

VARIABLES
    updates,      \* the updates channel: [closed]
    serProducers, \* sending goroutine: [pc, k]
    wg3,          \* var wg3 sync.WaitGroup: its counter
    serConsumer,  \* the receiving goroutine: [pc, sum, v]
    serReported,  \* the sum the receiving goroutine printed, -1 before
    doneSerial,   \* the doneSerial channel is closed
    serMain,      \* position of main: "wait", "close", "receive", "after"
    serPanic      \* a goroutine panicked: send on closed channel

serVars ==
    <<updates, serProducers, wg3, serConsumer, serReported, doneSerial,
      serMain, serPanic>>

\* What each program leaves alone: the variables of the other programs.
notPoolVars ==
    <<rpcVars, httpVars, arithVars, greetVars, routerVars, teaVars,
      mathVars, ewVars, selVars, gorVars, serVars>>

notRpcVars ==
    <<poolVars, httpVars, arithVars, greetVars, routerVars, teaVars,
      mathVars, ewVars, selVars, gorVars, serVars>>

notHttpVars ==
    <<poolVars, rpcVars, arithVars, greetVars, routerVars, teaVars,
      mathVars, ewVars, selVars, gorVars, serVars>>

notArithVars ==
    <<poolVars, rpcVars, httpVars, greetVars, routerVars, teaVars,
      mathVars, ewVars, selVars, gorVars, serVars>>

notGreetVars ==
    <<poolVars, rpcVars, httpVars, arithVars, routerVars, teaVars,
      mathVars, ewVars, selVars, gorVars, serVars>>

notRouterVars ==
    <<poolVars, rpcVars, httpVars, arithVars, greetVars, teaVars, mathVars,
      ewVars, selVars, gorVars, serVars>>

notTeaVars ==
    <<poolVars, rpcVars, httpVars, arithVars, greetVars, routerVars,
      mathVars, ewVars, selVars, gorVars, serVars>>

notMathVars ==
    <<poolVars, rpcVars, httpVars, arithVars, greetVars, routerVars,
      teaVars, ewVars, selVars, gorVars, serVars>>

notEwVars ==
    <<poolVars, rpcVars, httpVars, arithVars, greetVars, routerVars,
      teaVars, mathVars, selVars, gorVars, serVars>>

notSelVars ==
    <<poolVars, rpcVars, httpVars, arithVars, greetVars, routerVars,
      teaVars, mathVars, ewVars, gorVars, serVars>>

notGorVars ==
    <<poolVars, rpcVars, httpVars, arithVars, greetVars, routerVars,
      teaVars, mathVars, ewVars, selVars, serVars>>

notSerVars ==
    <<poolVars, rpcVars, httpVars, arithVars, greetVars, routerVars,
      teaVars, mathVars, ewVars, selVars, gorVars>>

vars ==
    <<poolVars, rpcVars, httpVars, arithVars, greetVars, routerVars,
      teaVars, mathVars, ewVars, selVars, gorVars, serVars>>

(***************************************************************************)
(* Data                                                                    *)
(***************************************************************************)
Job(id) == [ID |-> id]

Result(jobID, value) == [JobID |-> jobID, Value |-> value]

\* The value a receive from a closed channel of Result yields.
ZeroResult == Result(0, 0)

NoJob == Job(0)

WorkerIds == 1..numWorkers

\* Mutant of Process: the value is job.ID + 2.
ProcessWrongValue(job) == Result(job.ID, job.ID + 2)

\* The Result a worker computes for a job (line 59).
Process(job) == Result(job.ID, job.ID * 2)

\* The program has not ended: main has not returned and nothing panicked.
Running == mainPc /= "exit" /\ panic = "none"

InitPool ==
    /\ numWorkers \in 1..MaxWorkers
    /\ numJobs \in 1..MaxJobs
    /\ ctxDone = FALSE
    /\ jobs = [closed |-> FALSE]
    /\ results = [closed |-> FALSE]
    /\ wg = 0
    /\ workers = [w \in 1..MaxWorkers |->
                    [pc |-> "idle", job |-> NoJob, res |-> ZeroResult, exit |-> "none"]]
    /\ dispatcher = [pc |-> "idle", j |-> 1]
    /\ collector = [pc |-> "idle", r |-> 1]
    /\ collected = EmptyBag
    /\ mainPc = "start"
    /\ mainW = 1
    /\ outcome = "none"
    /\ panic = "none"
    /\ rAtTimeout = -1

(***************************************************************************)
(* The cancellation signal: the timer of context.WithTimeout fires.        *)
(***************************************************************************)
Timeout ==
    /\ Running
    /\ ~ctxDone
    /\ ctxDone' = TRUE
    /\ rAtTimeout' = collector.r - 1
    /\ UNCHANGED notPoolVars
    /\ UNCHANGED <<numWorkers, numJobs, jobs, results, wg, workers, dispatcher,
                   collector, collected, mainPc, mainW, outcome, panic>>

(***************************************************************************)
(* main                                                                    *)
(***************************************************************************)
\* for w := 1; w <= numWorkers; w++ { wg.Add(1); go worker(...) }
MainStartWorker ==
    /\ Running
    /\ mainPc = "start"
    /\ mainW <= numWorkers
    /\ wg' = wg + 1
    /\ workers' = [workers EXCEPT ![mainW].pc = "select"]
    /\ mainW' = mainW + 1
    /\ UNCHANGED notPoolVars
    /\ UNCHANGED <<numWorkers, numJobs, ctxDone, jobs, results, dispatcher,
                   collector, collected, mainPc, outcome, panic, rAtTimeout>>

\* go func() { ... jobs <- ... }(); done := make(chan struct{}); go func() {...}()
MainStartDispatcherCollector ==
    /\ Running
    /\ mainPc = "start"
    /\ mainW > numWorkers
    /\ dispatcher' = [dispatcher EXCEPT !.pc = "send"]
    /\ collector' = [collector EXCEPT !.pc = "select"]
    /\ mainPc' = "wait"
    /\ UNCHANGED notPoolVars
    /\ UNCHANGED <<numWorkers, numJobs, ctxDone, jobs, results, wg, workers,
                   collected, mainW, outcome, panic, rAtTimeout>>

\* wg.Wait()
MainWait ==
    /\ Running
    /\ mainPc = "wait"
    /\ wg = 0
    /\ mainPc' = "close"
    /\ UNCHANGED notPoolVars
    /\ UNCHANGED <<numWorkers, numJobs, ctxDone, jobs, results, wg, workers,
                   dispatcher, collector, collected, mainW, outcome, panic,
                   rAtTimeout>>

\* close(results)
MainCloseResults ==
    /\ Running
    /\ mainPc = "close"
    /\ IF results.closed
         THEN panic' = "close of closed channel" /\ UNCHANGED results
         ELSE results' = [closed |-> TRUE] /\ UNCHANGED panic
    /\ mainPc' = "select"
    /\ UNCHANGED notPoolVars
    /\ UNCHANGED <<numWorkers, numJobs, ctxDone, jobs, wg, workers, dispatcher,
                   collector, collected, mainW, outcome, rAtTimeout>>

\* select { case <-done: "All results collected." }: a rendezvous with the
\* collector's send on the unbuffered done channel; main then returns.
MainSelectDone ==
    /\ Running
    /\ mainPc = "select"
    /\ collector.pc = "signal"
    /\ collector' = [collector EXCEPT !.pc = "exit"]
    /\ outcome' = "Completed"
    /\ mainPc' = "exit"
    /\ UNCHANGED notPoolVars
    /\ UNCHANGED <<numWorkers, numJobs, ctxDone, jobs, results, wg, workers,
                   dispatcher, collected, mainW, panic, rAtTimeout>>

\* select { case <-ctx.Done(): "Main: context timeout or cancelled." }
MainSelectCtxDone ==
    /\ Running
    /\ mainPc = "select"
    /\ ctxDone
    /\ outcome' = "Cancelled"
    /\ mainPc' = "exit"
    /\ UNCHANGED notPoolVars
    /\ UNCHANGED <<numWorkers, numJobs, ctxDone, jobs, results, wg, workers,
                   dispatcher, collector, collected, mainW, panic, rAtTimeout>>

(***************************************************************************)
(* The dispatcher goroutine. Its send jobs <- Job{ID: j} is a rendezvous   *)
(* with a worker's receive: see WorkerReceiveJob. A send blocks until a    *)
(* worker receives; nothing else in the program receives from jobs.        *)
(***************************************************************************)
\* Mutant of DispatcherSent: the loop test is j < numJobs, so that the
\* channel is closed before the last job is sent.
DispatcherSentOffByOne ==
    [pc |-> IF dispatcher.j + 1 < numJobs THEN "send" ELSE "close",
     j  |-> dispatcher.j + 1]

\* The dispatcher's side of one completed send: j++ and the loop test.
DispatcherSent ==
    [pc |-> IF dispatcher.j + 1 <= numJobs THEN "send" ELSE "close",
     j  |-> dispatcher.j + 1]

\* Mutant of DispatcherClose: the goroutine ends without close(jobs).
DispatcherCloseSkipped ==
    /\ Running
    /\ dispatcher.pc = "close"
    /\ dispatcher' = [dispatcher EXCEPT !.pc = "exit"]
    /\ UNCHANGED notPoolVars
    /\ UNCHANGED <<numWorkers, numJobs, ctxDone, jobs, results, wg, workers,
                   collector, collected, mainPc, mainW, outcome, panic,
                   rAtTimeout>>

\* close(jobs)
DispatcherClose ==
    /\ Running
    /\ dispatcher.pc = "close"
    /\ IF jobs.closed
         THEN panic' = "close of closed channel" /\ UNCHANGED jobs
         ELSE jobs' = [closed |-> TRUE] /\ UNCHANGED panic
    /\ dispatcher' = [dispatcher EXCEPT !.pc = "exit"]
    /\ UNCHANGED notPoolVars
    /\ UNCHANGED <<numWorkers, numJobs, ctxDone, results, wg, workers,
                   collector, collected, mainPc, mainW, outcome, rAtTimeout>>

(***************************************************************************)
(* worker(ctx, id, jobs, results, wg)                                      *)
(***************************************************************************)
\* select { case <-ctx.Done(): return }, with the deferred wg.Done()
WorkerCancelled(w) ==
    /\ Running
    /\ workers[w].pc = "select"
    /\ ctxDone
    /\ workers' = [workers EXCEPT ![w].pc = "exit", ![w].exit = "cancelled"]
    /\ wg' = wg - 1
    /\ UNCHANGED notPoolVars
    /\ UNCHANGED <<numWorkers, numJobs, ctxDone, jobs, results, dispatcher,
                   collector, collected, mainPc, mainW, outcome, panic,
                   rAtTimeout>>

\* Mutant of WorkerReceiveJob: the worker gets the job, and the dispatcher
\* stays blocked in the send of the same job.
WorkerReceiveJobNoAdvance(w) ==
    /\ Running
    /\ workers[w].pc = "select"
    /\ dispatcher.pc = "send"
    /\ ~jobs.closed
    /\ workers' = [workers EXCEPT ![w].pc = "work", ![w].job = Job(dispatcher.j)]
    /\ UNCHANGED notPoolVars
    /\ UNCHANGED <<numWorkers, numJobs, ctxDone, jobs, results, wg, dispatcher,
                   collector, collected, mainPc, mainW, outcome, panic,
                   rAtTimeout>>

\* select { case job, ok := <-jobs: } with ok = true: the dispatcher is
\* blocked in its send, and the worker takes the job.
WorkerReceiveJob(w) ==
    /\ Running
    /\ workers[w].pc = "select"
    /\ dispatcher.pc = "send"
    /\ ~jobs.closed
    /\ workers' = [workers EXCEPT ![w].pc = "work", ![w].job = Job(dispatcher.j)]
    /\ dispatcher' = DispatcherSent
    /\ UNCHANGED notPoolVars
    /\ UNCHANGED <<numWorkers, numJobs, ctxDone, jobs, results, wg, collector,
                   collected, mainPc, mainW, outcome, panic, rAtTimeout>>

\* select { case job, ok := <-jobs: } with ok = false: return (wg.Done())
WorkerJobsClosed(w) ==
    /\ Running
    /\ workers[w].pc = "select"
    /\ jobs.closed
    /\ workers' = [workers EXCEPT ![w].pc = "exit", ![w].exit = "closed"]
    /\ wg' = wg - 1
    /\ UNCHANGED notPoolVars
    /\ UNCHANGED <<numWorkers, numJobs, ctxDone, jobs, results, dispatcher,
                   collector, collected, mainPc, mainW, outcome, panic,
                   rAtTimeout>>

\* time.Sleep(duration); the Result of the job is built
WorkerWork(w) ==
    /\ Running
    /\ workers[w].pc = "work"
    /\ workers' = [workers EXCEPT ![w].pc = "send", ![w].res = Process(workers[w].job)]
    /\ UNCHANGED notPoolVars
    /\ UNCHANGED <<numWorkers, numJobs, ctxDone, jobs, results, wg, dispatcher,
                   collector, collected, mainPc, mainW, outcome, panic,
                   rAtTimeout>>

(***************************************************************************)
(* The collector goroutine                                                 *)
(***************************************************************************)
\* The collector's side of one receive: the Result is printed, r++ and the
\* loop test r <= numJobs.
CollectorReceived ==
    [pc |-> IF collector.r + 1 <= numJobs THEN "select" ELSE "signal",
     r  |-> collector.r + 1]

\* case res := <-results: a rendezvous with worker w's send
\* results <- Result{...}; the worker goes on with its loop.
CollectorReceive(w) ==
    /\ Running
    /\ collector.pc = "select"
    /\ workers[w].pc = "send"
    /\ ~results.closed
    /\ collected' = collected (+) SetToBag({workers[w].res})
    /\ collector' = CollectorReceived
    /\ workers' = [workers EXCEPT ![w].pc = "select"]
    /\ UNCHANGED notPoolVars
    /\ UNCHANGED <<numWorkers, numJobs, ctxDone, jobs, results, wg, dispatcher,
                   mainPc, mainW, outcome, panic, rAtTimeout>>

\* case res := <-results: on the closed channel the receive yields the
\* zero Result at once.
CollectorReceiveClosed ==
    /\ Running
    /\ collector.pc = "select"
    /\ results.closed
    /\ collected' = collected (+) SetToBag({ZeroResult})
    /\ collector' = CollectorReceived
    /\ UNCHANGED notPoolVars
    /\ UNCHANGED <<numWorkers, numJobs, ctxDone, jobs, results, wg, workers,
                   dispatcher, mainPc, mainW, outcome, panic, rAtTimeout>>

\* case <-ctx.Done(): "Result collection cancelled"; return
CollectorCancelled ==
    /\ Running
    /\ collector.pc = "select"
    /\ ctxDone
    /\ collector' = [collector EXCEPT !.pc = "exit"]
    /\ UNCHANGED notPoolVars
    /\ UNCHANGED <<numWorkers, numJobs, ctxDone, jobs, results, wg, workers,
                   dispatcher, collected, mainPc, mainW, outcome, panic,
                   rAtTimeout>>

(***************************************************************************)
(* Part 2: 09_rpc/01_net_rpc/main.go. The services, as the server runs     *)
(* them on a reply it has allocated (the zero value of the reply type).    *)
(* A method yields the reply and the error it returns.                     *)
(***************************************************************************)
Args(a, b) == [A |-> a, B |-> b]

\* func (a *ArithService) Add(args *Args, reply *int) error
Add(args, reply) == [reply |-> args.A + args.B, err |-> "nil"]

\* func (a *ArithService) Multiply(args *Args, reply *int) error
Multiply(args, reply) == [reply |-> args.A * args.B, err |-> "nil"]

\* float64(a) / float64(b) for b /= 0, kept exact as a fraction in lowest
\* terms with a positive denominator.
RECURSIVE GCD(_, _)
GCD(x, y) == IF y = 0 THEN x ELSE GCD(y, x % y)

Abs(x) == IF x < 0 THEN -x ELSE x

Float(a, b) ==
    LET g == GCD(Abs(a), Abs(b))
        sgn == IF b < 0 THEN -1 ELSE 1
    IN [num |-> sgn * (a \div g), den |-> sgn * (b \div g)]

\* func (a *ArithService) Divide(args *Args, reply *float64) error
\* A Divide that clears the reply when it refuses to divide.
DivideClearsReply(args, reply) ==
    IF args.B = 0
    THEN [reply |-> Float(0, 1), err |-> "division by zero"]
    ELSE [reply |-> Float(args.A, args.B), err |-> "nil"]

Divide(args, reply) ==
    IF args.B = 0
      THEN [reply |-> reply, err |-> "division by zero"]
      ELSE [reply |-> Float(args.A, args.B), err |-> "nil"]

\* The loop of Power: for i := 0; i < args.B; i++ { result *= args.A }
RECURSIVE PowerLoop(_, _, _)
PowerLoop(result, i, args) ==
    IF i < args.B THEN PowerLoop(result * args.A, i + 1, args) ELSE result

\* func (a *ArithService) Power(args *Args, reply *int) error
Power(args, reply) == [reply |-> PowerLoop(1, 0, args), err |-> "nil"]

\* fmt.Sprintf("%d", n): the decimal digits of n, as a sequence of characters.
Digit(d) == <<"0", "1", "2", "3", "4", "5", "6", "7", "8", "9">>[d + 1]

RECURSIVE Digits(_)
Digits(n) == IF n < 10 THEN <<Digit(n)>> ELSE Digits(n \div 10) \o <<Digit(n % 10)>>

Itoa(n) == IF n < 0 THEN <<"-">> \o Digits(-n) ELSE Digits(n)

\* func (s *StringService) Concat(args *Args, reply *string) error
Concat(args, reply) == [reply |-> Itoa(args.A) \o Itoa(args.B), err |-> "nil"]

\* func (s *StringService) Length(args *Args, reply *int) error
Length(args, reply) == [reply |-> Len(Itoa(args.A) \o Itoa(args.B)), err |-> "nil"]

\* The zero value of the reply type of a method, which the server allocates.
ZeroFloat == [num |-> 0, den |-> 1]

\* rpc.Register(arith); rpc.Register(stringSvc): the method a request names,
\* run on a fresh reply.
ServiceCall(method, args) ==
    CASE method = "ArithService.Add"      -> Add(args, 0)
      [] method = "ArithService.Multiply" -> Multiply(args, 0)
      [] method = "ArithService.Power"    -> Power(args, 0)
      [] method = "ArithService.Divide"   -> Divide(args, ZeroFloat)
      [] method = "StringService.Concat"  -> Concat(args, <<>>)
      [] method = "StringService.Length"  -> Length(args, 0)

(***************************************************************************)
(* runClient, statement by statement. client.Call(m, args, &dst) is        *)
(* client.Go(m, args, &dst, ...) followed by the receive from Done; "Call" *)
(* then prints with the format of its else branch, or logs the error.      *)
(* "Go" starts a call and keeps it in a call variable, "Wait" is the       *)
(* receive <-call.Done, "Print" the if/else on the received Error.         *)
(***************************************************************************)
Stmt(kind, method, args, dst, call, format) ==
    [kind |-> kind, method |-> method, args |-> args, dst |-> dst,
     call |-> call, format |-> format]

ClientProgram ==
    << Stmt("Call", "ArithService.Add", Args(10, 5), "reply", "sync", "Add(%d, %d) = %d"),
       Stmt("Call", "ArithService.Multiply", Args(10, 5), "reply", "sync", "Multiply(%d, %d) = %d"),
       Stmt("Call", "ArithService.Power", Args(10, 5), "reply", "sync", "Power(%d, %d) = %d"),
       Stmt("Call", "ArithService.Divide", Args(10, 5), "floatReply", "sync", "Divide(%d, %d) = %.2f"),
       Stmt("Call", "ArithService.Divide", Args(10, 0), "floatReply", "sync", ""),
       Stmt("Call", "StringService.Concat", Args(10, 5), "stringReply", "sync", "Concat(%d, %d) = %s"),
       Stmt("Call", "StringService.Length", Args(10, 5), "reply", "sync", "Length(%d, %d) = %d"),
       Stmt("Go", "ArithService.Add", Args(20, 30), "reply", "addCall", ""),
       Stmt("Go", "ArithService.Multiply", Args(7, 8), "reply", "multiplyCall", ""),
       Stmt("Wait", "", Args(0, 0), "reply", "addCall", ""),
       Stmt("Print", "", Args(20, 30), "reply", "addCall", "Async Add(20, 30) = %d"),
       Stmt("Wait", "", Args(0, 0), "reply", "multiplyCall", ""),
       Stmt("Print", "", Args(7, 8), "reply", "multiplyCall", "Async Multiply(7, 8) = %d") >>

\* The statement runClient is at; past the last one it has finished.
ClientRunning == rpcPc.stmt <= Len(ClientProgram)

CurrentStmt == ClientProgram[rpcPc.stmt]

NextStmt == [stmt |-> rpcPc.stmt + 1, phase |-> "start"]

\* A line of output: the format, the arguments it names and the value read.
Line(format, args, value) == [format |-> format, args |-> args, value |-> value]

\* What the if/else after a call prints: the error when there is one (the
\* zero-division call has no else branch), else the variable the reply
\* pointer names, as it is when the statement runs.
Report(st, err) ==
    IF err /= "nil"
      THEN <<Line("error: %v", st.args, err)>>
      ELSE IF st.format = "" THEN <<>>
      ELSE <<Line(st.format, st.args, mem[st.dst])>>

\* The input goroutine is between two responses.
NoCall == [seq |-> -1, err |-> "nil"]

InitRpc ==
    /\ rpcPc = [stmt |-> 1, phase |-> "start"]
    /\ rpcSeq = 0
    /\ rpcPending = <<>>
    /\ rpcCall = [c \in {"sync", "addCall", "multiplyCall"} |-> -1]
    /\ rpcDone = <<>>
    /\ rpcErr = "nil"
    /\ toServer = <<>>
    /\ serving = {}
    /\ responding = {}
    /\ toClient = <<>>
    /\ inputCall = NoCall
    /\ mem = [reply |-> 0, floatReply |-> ZeroFloat, stringReply |-> <<>>]
    /\ stdout = <<>>

\* client.Go (also the first half of client.Call): the call is registered
\* as pending under the next sequence number and its request is written.
ClientGo ==
    /\ ClientRunning
    /\ CurrentStmt.kind \in {"Call", "Go"}
    /\ rpcPc.phase = "start"
    /\ rpcPending' = rpcPending @@ (rpcSeq :> CurrentStmt.dst)
    /\ rpcDone' = rpcDone @@ (rpcSeq :> "empty")
    /\ rpcCall' = [rpcCall EXCEPT ![CurrentStmt.call] = rpcSeq]
    /\ toServer' = Append(toServer,
                          [seq |-> rpcSeq, method |-> CurrentStmt.method,
                           args |-> CurrentStmt.args])
    /\ rpcSeq' = rpcSeq + 1
    /\ rpcPc' = IF CurrentStmt.kind = "Call"
                  THEN [rpcPc EXCEPT !.phase = "wait"]
                  ELSE NextStmt
    /\ UNCHANGED <<rpcErr, serving, responding, toClient, inputCall, mem, stdout>>
    /\ UNCHANGED notRpcVars

\* The second half of client.Call: the receive from Done, and the if/else
\* on the error that follows it.
ClientCallReturn ==
    /\ ClientRunning
    /\ CurrentStmt.kind = "Call"
    /\ rpcPc.phase = "wait"
    /\ rpcDone[rpcCall["sync"]] /= "empty"
    /\ rpcErr' = rpcDone[rpcCall["sync"]]
    /\ stdout' = stdout \o Report(CurrentStmt, rpcDone[rpcCall["sync"]])
    /\ rpcPc' = NextStmt
    /\ UNCHANGED <<rpcSeq, rpcPending, rpcCall, rpcDone, toServer, serving,
                   responding, toClient, inputCall, mem>>
    /\ UNCHANGED notRpcVars

\* addReply := <-addCall.Done; multiplyReply := <-multiplyCall.Done
ClientWaitDone ==
    /\ ClientRunning
    /\ CurrentStmt.kind = "Wait"
    /\ rpcDone[rpcCall[CurrentStmt.call]] /= "empty"
    /\ rpcErr' = rpcDone[rpcCall[CurrentStmt.call]]
    /\ rpcPc' = NextStmt
    /\ UNCHANGED <<rpcSeq, rpcPending, rpcCall, rpcDone, toServer, serving,
                   responding, toClient, inputCall, mem, stdout>>
    /\ UNCHANGED notRpcVars

\* if addReply.Error != nil { log } else { fmt.Printf("Async ... = %d\n", reply) }
ClientPrint ==
    /\ ClientRunning
    /\ CurrentStmt.kind = "Print"
    /\ stdout' = stdout \o Report(CurrentStmt, rpcErr)
    /\ rpcPc' = NextStmt
    /\ UNCHANGED <<rpcSeq, rpcPending, rpcCall, rpcDone, rpcErr, toServer,
                   serving, responding, toClient, inputCall, mem>>
    /\ UNCHANGED notRpcVars

\* rpc.ServeConn: the next request is read and a goroutine is started for it.
ServerReadRequest ==
    /\ toServer /= <<>>
    /\ serving' = serving \cup {Head(toServer)}
    /\ toServer' = Tail(toServer)
    /\ UNCHANGED <<rpcPc, rpcSeq, rpcPending, rpcCall, rpcDone, rpcErr,
                   responding, toClient, inputCall, mem, stdout>>
    /\ UNCHANGED notRpcVars

\* The goroutine of one request calls the method on a fresh reply.
ServerCall(req) ==
    /\ req \in serving
    /\ LET out == ServiceCall(req.method, req.args)
       IN responding' = responding \cup
                          {[seq |-> req.seq, err |-> out.err, body |-> out.reply]}
    /\ serving' = serving \ {req}
    /\ UNCHANGED <<rpcPc, rpcSeq, rpcPending, rpcCall, rpcDone, rpcErr,
                   toServer, toClient, inputCall, mem, stdout>>
    /\ UNCHANGED notRpcVars

\* The goroutine then writes its response; the responses of two calls are
\* written in the order in which their goroutines get there.
ServerSendResponse(resp) ==
    /\ resp \in responding
    /\ toClient' = Append(toClient, resp)
    /\ responding' = responding \ {resp}
    /\ UNCHANGED <<rpcPc, rpcSeq, rpcPending, rpcCall, rpcDone, rpcErr,
                   toServer, serving, inputCall, mem, stdout>>
    /\ UNCHANGED notRpcVars

\* The client's input goroutine reads the next response, takes its call
\* out of the pending calls, and decodes the body into the variable the
\* call's Reply points at, unless the response carries an error.
ClientInputRead ==
    /\ inputCall = NoCall
    /\ toClient /= <<>>
    /\ LET resp == Head(toClient)
       IN /\ mem' = IF resp.err = "nil"
                      THEN [mem EXCEPT ![rpcPending[resp.seq]] = resp.body]
                      ELSE mem
          /\ rpcPending' = [q \in DOMAIN rpcPending \ {resp.seq} |-> rpcPending[q]]
          /\ inputCall' = [seq |-> resp.seq, err |-> resp.err]
    /\ toClient' = Tail(toClient)
    /\ UNCHANGED <<rpcPc, rpcSeq, rpcCall, rpcDone, rpcErr, toServer, serving,
                   responding, stdout>>
    /\ UNCHANGED notRpcVars

\* The input goroutine then sends the call on its Done channel, which is
\* buffered: call.done().
ClientInputDone ==
    /\ inputCall /= NoCall
    /\ rpcDone' = [rpcDone EXCEPT ![inputCall.seq] = inputCall.err]
    /\ inputCall' = NoCall
    /\ UNCHANGED <<rpcPc, rpcSeq, rpcPending, rpcCall, rpcErr, toServer,
                   serving, responding, toClient, mem, stdout>>
    /\ UNCHANGED notRpcVars

(***************************************************************************)
(* Part 3: 08_web_development/01_net_http/main.go. The server runs one     *)
(* goroutine per connection; every handler works on the package variables  *)
(* users, nextID and mu.                                                   *)
(***************************************************************************)
\* At most MaxClients requests are served at a time, and the clients stop
\* creating users when MaxUsers are stored.
MaxClients == 2

MaxUsers == 3

User(id, name) == [ID |-> id, Name |-> name]

\* var u User
ZeroUser == User(0, "")

\* The value of a member of a JSON object, or its absence.
JString(s) == [type |-> "string", s |-> s, n |-> 0]

JNumber(n) == [type |-> "number", s |-> "", n |-> n]

JAbsent == [type |-> "absent", s |-> "", n |-> 0]

\* A request or response body: nothing at all, text that is no JSON value,
\* a JSON array, or a JSON object with its members "id" and "name"; trailing
\* says that more text follows the value.
Body(kind, id, name, trailing) ==
    [kind |-> kind, id |-> id, name |-> name, trailing |-> trailing]

NoBody == Body("empty", JAbsent, JAbsent, FALSE)

Bodies ==
    { NoBody,                                                \* (no body)
      Body("malformed", JAbsent, JAbsent, FALSE),            \* {"name":}
      Body("array", JAbsent, JAbsent, FALSE),                \* ["Alice"]
      Body("object", JNumber(7), JString("Alice"), FALSE),   \* {"id":7,"name":"Alice"}
      Body("object", JNumber(7), JAbsent, FALSE),            \* {"id":7}
      Body("object", JAbsent, JString(""), FALSE),           \* {"name":""}
      Body("object", JAbsent, JNumber(5), FALSE),            \* {"name":5}
      Body("object", JAbsent, JString("Alice"), TRUE) }      \* {"name":"Alice"} }

Methods == {"GET", "POST", "PUT"}

ContentTypes == {"application/json", "text/plain"}

Request(method, contentType, body) ==
    [method |-> method, contentType |-> contentType, body |-> body]

\* The requests the clients send to /users: a GET without a body, and a
\* POST or a PUT with every content type and every body.
Requests ==
    {Request("GET", "", NoBody)} \cup
    [method : {"POST", "PUT"}, contentType : ContentTypes, body : Bodies]

Response(req, status, msg, body) ==
    [req |-> req, status |-> status, msg |-> msg, body |-> body]

\* json.NewDecoder(r.Body).Decode(&u): the decoder reads the first JSON value
\* of the body and stops there. It fails at the end of an empty body, on
\* text that is no JSON value, and on a value whose type does not fit User;
\* a member the object does not have leaves the field of u as it was.
Decode(body, u) ==
    CASE body.kind = "empty" -> [u |-> u, err |-> "EOF"]
      [] body.kind = "malformed" -> [u |-> u, err |-> "invalid character"]
      [] body.kind = "array" -> [u |-> u, err |-> "cannot unmarshal array"]
      [] body.kind = "object" ->
           [u |-> User(IF body.id.type = "number" THEN body.id.n ELSE u.ID,
                       IF body.name.type = "string" THEN body.name.s ELSE u.Name),
            err |-> IF \/ body.id.type = "string"
                       \/ body.name.type = "number"
                    THEN "cannot unmarshal value"
                    ELSE "nil"]

\* json.NewEncoder(w).Encode(u)
Encode(u) == Body("object", JNumber(u.ID), JString(u.Name), FALSE)

\* json.NewEncoder(w).Encode(users): the array of the encoded users.
EncodeUsers(us) == [i \in DOMAIN us |-> Encode(us[i])]

\* createUserHandler, up to mu.Lock(): the response of the check that
\* fails first, or status 0 and the decoded u when every check passes.
CreateUserChecks(req) ==
    IF req.method /= "POST"
    THEN [status |-> 405, msg |-> "Method not allowed", u |-> ZeroUser]
    ELSE IF req.contentType /= "application/json"
    THEN [status |-> 415, msg |-> "Content-Type must be application/json",
          u |-> ZeroUser]
    ELSE IF Decode(req.body, ZeroUser).err /= "nil"
    THEN [status |-> 400, msg |-> "Invalid JSON", u |-> ZeroUser]
    ELSE IF Decode(req.body, ZeroUser).u.Name = ""
    THEN [status |-> 400, msg |-> "Name is required", u |-> ZeroUser]
    ELSE [status |-> 0, msg |-> "", u |-> Decode(req.body, ZeroUser).u]

\* The handler main registers for /users, up to the first mu.Lock().
UsersRoute(req) ==
    CASE req.method = "GET" -> [status |-> 0, msg |-> "", u |-> ZeroUser]
      [] req.method = "POST" -> CreateUserChecks(req)
      [] OTHER -> [status |-> 405, msg |-> "Method not allowed", u |-> ZeroUser]

ClientIds == 1..MaxClients

NoRequest == Request("", "", NoBody)

IdleConn == [pc |-> "idle", req |-> NoRequest, u |-> ZeroUser]

NoResponse == Response(NoRequest, 0, "", NoBody)

InitHttp ==
    /\ users = <<User(1, "Bob")>>
    /\ nextID = 2
    /\ mu = 0
    /\ conns = [c \in ClientIds |-> IdleConn]
    /\ lastResp = NoResponse

\* A request that one of the checks rejects: the handler writes the error
\* response without touching users, nextID or mu.
HttpReject(req) ==
    /\ UsersRoute(req).status /= 0
    /\ lastResp' = Response(req, UsersRoute(req).status, UsersRoute(req).msg,
                            NoBody)
    /\ UNCHANGED <<users, nextID, mu, conns>>
    /\ UNCHANGED notHttpVars

\* A request that passes the checks: its handler is about to call mu.Lock().
HttpAccept(c, req) ==
    /\ conns[c].pc = "idle"
    /\ UsersRoute(req).status = 0
    /\ req.method = "POST" =>
         Len(users) + Cardinality({d \in ClientIds :
                                     /\ conns[d].pc /= "idle"
                                     /\ conns[d].req.method = "POST"}) < MaxUsers
    /\ conns' = [conns EXCEPT ![c] = [pc |-> "lock", req |-> req,
                                      u |-> UsersRoute(req).u]]
    /\ UNCHANGED <<users, nextID, mu, lastResp>>
    /\ UNCHANGED notHttpVars

\* A handler that does not wait for the mutex.
HttpLockNoWait(c) ==
    /\ conns[c].pc = "lock"
    /\ mu' = c
    /\ conns' = [conns EXCEPT ![c].pc = IF conns[c].req.method = "GET"
                                        THEN "encode" ELSE "assign"]
    /\ UNCHANGED <<users, nextID, lastResp>>
    /\ UNCHANGED notHttpVars

\* mu.Lock(), of getUsersHandler and of createUserHandler.
HttpLock(c) ==
    /\ conns[c].pc = "lock"
    /\ mu = 0
    /\ mu' = c
    /\ conns' = [conns EXCEPT ![c].pc = IF conns[c].req.method = "GET"
                                        THEN "encode" ELSE "assign"]
    /\ UNCHANGED <<users, nextID, lastResp>>
    /\ UNCHANGED notHttpVars

\* getUsersHandler: Encode(users), then the deferred mu.Unlock().
HttpGetUsers(c) ==
    /\ conns[c].pc = "encode"
    /\ lastResp' = Response(conns[c].req, 200, "", EncodeUsers(users))
    /\ mu' = 0
    /\ conns' = [conns EXCEPT ![c] = IdleConn]
    /\ UNCHANGED <<users, nextID>>
    /\ UNCHANGED notHttpVars

\* u.ID = nextID; nextID++, with mu held.
HttpAssignID(c) ==
    /\ conns[c].pc = "assign"
    /\ conns' = [conns EXCEPT ![c].u.ID = nextID, ![c].pc = "append"]
    /\ nextID' = nextID + 1
    /\ UNCHANGED <<users, mu, lastResp>>
    /\ UNCHANGED notHttpVars

\* users = append(users, u); mu.Unlock()
HttpAppend(c) ==
    /\ conns[c].pc = "append"
    /\ users' = Append(users, conns[c].u)
    /\ mu' = 0
    /\ conns' = [conns EXCEPT ![c].pc = "respond"]
    /\ UNCHANGED <<nextID, lastResp>>
    /\ UNCHANGED notHttpVars

\* w.WriteHeader(http.StatusCreated); Encode(u)
HttpCreated(c) ==
    /\ conns[c].pc = "respond"
    /\ lastResp' = Response(conns[c].req, 201, "", Encode(conns[c].u))
    /\ conns' = [conns EXCEPT ![c] = IdleConn]
    /\ UNCHANGED <<users, nextID, mu>>
    /\ UNCHANGED notHttpVars

(***************************************************************************)
(* Part 4: 09_rpc/01_net_rpc/main.go. One call of a method of ArithService *)
(* with args and the reply variables the caller chose.                     *)
(***************************************************************************)
\* The fields A and B of args range over -MaxArg..MaxArg.
MaxArg == 3

ArgRange == (0 - MaxArg)..MaxArg

\* The caller's variables: var reply int, var floatReply float64.
Replies(i, f) == [int |-> i, float |-> f]

\* What the variables hold before the call: their zero values, or the
\* results of earlier calls.
PriorReplies == {Replies(0, ZeroFloat), Replies(9, Float(2, 1))}

InitArith ==
    /\ arithArgs \in {Args(a, b) : a \in ArgRange, b \in ArgRange}
    /\ arithReply0 \in PriorReplies
    /\ arithMethod = ""
    /\ arithReply = arithReply0
    /\ arithErr = "nil"

\* ArithService.Add(args, &reply)
CallAdd ==
    /\ arithMethod = ""
    /\ arithMethod' = "Add"
    /\ arithReply' = [arithReply EXCEPT !.int = Add(arithArgs, arithReply.int).reply]
    /\ arithErr' = Add(arithArgs, arithReply.int).err
    /\ UNCHANGED <<arithArgs, arithReply0>>
    /\ UNCHANGED notArithVars

\* ArithService.Multiply(args, &reply)
CallMultiply ==
    /\ arithMethod = ""
    /\ arithMethod' = "Multiply"
    /\ arithReply' = [arithReply EXCEPT !.int = Multiply(arithArgs, arithReply.int).reply]
    /\ arithErr' = Multiply(arithArgs, arithReply.int).err
    /\ UNCHANGED <<arithArgs, arithReply0>>
    /\ UNCHANGED notArithVars

\* ArithService.Power(args, &reply)
CallPower ==
    /\ arithMethod = ""
    /\ arithMethod' = "Power"
    /\ arithReply' = [arithReply EXCEPT !.int = Power(arithArgs, arithReply.int).reply]
    /\ arithErr' = Power(arithArgs, arithReply.int).err
    /\ UNCHANGED <<arithArgs, arithReply0>>
    /\ UNCHANGED notArithVars

\* ArithService.Divide(args, &floatReply)
CallDivide ==
    /\ arithMethod = ""
    /\ arithMethod' = "Divide"
    /\ arithReply' = [arithReply EXCEPT !.float = Divide(arithArgs, arithReply.float).reply]
    /\ arithErr' = Divide(arithArgs, arithReply.float).err
    /\ UNCHANGED <<arithArgs, arithReply0>>
    /\ UNCHANGED notArithVars

\* No call has been made.
ArithIdle ==
    /\ arithArgs = Args(0, 0)
    /\ arithReply0 = Replies(0, ZeroFloat)
    /\ arithMethod = ""
    /\ arithReply = arithReply0
    /\ arithErr = "nil"

(***************************************************************************)
(* Part 5: 04_Tooling_testing_and_code_quality/05_mocks_and_stubs.         *)
(* GreetUser, called once with a store of one of the two kinds the tests   *)
(* define: the mockStore of user_mock_test.go, the stubStore of            *)
(* user_stub_test.go.                                                      *)
(***************************************************************************)
\* The stores hold users with the IDs 1..MaxUserId.
MaxUserId == 2

\* users.User
UsersUser(id, name) == [ID |-> id, Name |-> name]

\* User{}
UsersZeroUser == UsersUser(0, "")

UserNames == {"Alice", "Bob"}

StoredUsers == {UsersUser(id, name) : id \in 1..MaxUserId, name \in UserNames}

\* &mockStore{getReturn: ..., getErr: ...}
MockStore(getReturn, getErr) ==
    [kind |-> "mock", users |-> {}, getReturn |-> getReturn, getErr |-> getErr,
     getCalls |-> <<>>, saveCalls |-> <<>>]

\* &stubStore{users: ...}; the map holds each user under its ID.
StubStore(us) ==
    [kind |-> "stub", users |-> us, getReturn |-> UsersZeroUser, getErr |-> "nil",
     getCalls |-> <<>>, saveCalls |-> <<>>]

Stores ==
    {MockStore(u, e) : u \in StoredUsers \cup {UsersZeroUser},
                       e \in {"nil", "db down"}} \cup
    {StubStore(us) : us \in {x \in SUBSET StoredUsers :
                               \A u, v \in x : u.ID = v.ID => u = v}}

\* store.GetUser(id): the user, the error, and the store afterwards.
GetUser(store, id) ==
    IF store.kind = "mock"
    THEN [u |-> IF store.getErr /= "nil" THEN UsersZeroUser ELSE store.getReturn,
          err |-> store.getErr,
          store |-> [store EXCEPT !.getCalls = Append(@, id)]]
    ELSE IF \E u \in store.users : u.ID = id
    THEN [u |-> CHOOSE u \in store.users : u.ID = id, err |-> "nil",
          store |-> store]
    ELSE [u |-> UsersZeroUser, err |-> "not found", store |-> store]

\* store.SaveUser(u): the error, and the store afterwards.
SaveUser(store, u) ==
    IF store.kind = "mock"
    THEN [err |-> "nil", store |-> [store EXCEPT !.saveCalls = Append(@, u)]]
    ELSE [err |-> "nil",
          store |-> [store EXCEPT !.users =
                        {v \in @ : v.ID /= u.ID} \cup {u}]]

\* A method call GreetUser makes on its store.
StoreCall(method, id) == [method |-> method, id |-> id]

\* A GreetUser that writes the user back to the store.
GreetUserSavesBack(store, id) ==
    IF GetUser(store, id).err /= "nil"
    THEN [greeting |-> "", err |-> GetUser(store, id).err,
          store |-> GetUser(store, id).store,
          calls |-> <<StoreCall("GetUser", id)>>]
    ELSE [greeting |-> "Hello, " \o GetUser(store, id).u.Name, err |-> "nil",
          store |-> SaveUser(GetUser(store, id).store, GetUser(store, id).u).store,
          calls |-> <<StoreCall("GetUser", id), StoreCall("SaveUser", id)>>]

\* A GreetUser that greets whatever GetUser returned.
GreetUserIgnoresError(store, id) ==
    [greeting |-> "Hello, " \o GetUser(store, id).u.Name, err |-> "nil",
     store |-> GetUser(store, id).store,
     calls |-> <<StoreCall("GetUser", id)>>]

\* GreetUser(store, id): the greeting, the error, the store afterwards and
\* the calls made on the store.
GreetUser(store, id) ==
    IF GetUser(store, id).err /= "nil"
    THEN [greeting |-> "", err |-> GetUser(store, id).err,
          store |-> GetUser(store, id).store,
          calls |-> <<StoreCall("GetUser", id)>>]
    ELSE [greeting |-> "Hello, " \o GetUser(store, id).u.Name, err |-> "nil",
          store |-> GetUser(store, id).store,
          calls |-> <<StoreCall("GetUser", id)>>]

\* GreetUser has not returned anything.
NoGreeting == [greeting |-> "", err |-> "nil", calls |-> <<>>]

InitGreet ==
    /\ greetStore0 \in Stores
    /\ greetId \in 0..(MaxUserId + 1)
    /\ greetCalled = FALSE
    /\ greetStore = greetStore0
    /\ greetOut = NoGreeting

\* g, err := GreetUser(store, id)
CallGreetUser ==
    /\ ~greetCalled
    /\ greetCalled' = TRUE
    /\ greetStore' = GreetUser(greetStore, greetId).store
    /\ greetOut' = [greeting |-> GreetUser(greetStore, greetId).greeting,
                    err |-> GreetUser(greetStore, greetId).err,
                    calls |-> GreetUser(greetStore, greetId).calls]
    /\ UNCHANGED <<greetStore0, greetId>>
    /\ UNCHANGED notGreetVars

\* GreetUser is not called.
GreetIdle ==
    /\ greetStore0 = StubStore({})
    /\ greetId = 0
    /\ greetCalled = FALSE
    /\ greetStore = greetStore0
    /\ greetOut = NoGreeting

(***************************************************************************)
(* Part 6: the router of 04_Tooling_testing_and_code_quality/06_httptest:  *)
(* SetupRouter, helloHandler and echoHandler, serving one request.         *)
(***************************************************************************)
\* A request has at most MaxParams query parameters and a body of at most
\* MaxBody bytes; one Read of the body returns at most MaxRead bytes.
MaxParams == 2

MaxBody == 3

MaxRead == 2

\* A parameter of the URL's query, after parsing.
Param(key, value) == [key |-> key, value |-> value]

Params == {Param(k, v) : k \in {"name", "lang"}, v \in {"", "Alice"}}

Queries == UNION {[1..n -> Params] : n \in 0..MaxParams}

Bytes == {"p", "d"}

\* r.Body: the bytes it delivers, and whether reading it fails.
RouterBody(data, fails) == [data |-> data, fails |-> fails]

RouterBodies == {RouterBody(d, f) : d \in UNION {[1..n -> Bytes] : n \in 0..MaxBody},
                                   f \in BOOLEAN}

RouterRequest(method, path, query, body) ==
    [method |-> method, path |-> path, query |-> query, body |-> body]

RouterRequests ==
    {RouterRequest(m, p, q, b) : m \in {"GET", "POST"},
                                 p \in {"/hello", "/echo", "/time"},
                                 q \in Queries, b \in RouterBodies}

RouterResponse(status, body) == [status |-> status, body |-> body]

\* r.URL.Query().Get(key): the value of the first parameter of this key,
\* "" when there is none.
Get(query, key) ==
    IF \E i \in DOMAIN query : query[i].key = key
    THEN query[CHOOSE i \in DOMAIN query :
                 /\ query[i].key = key
                 /\ \A j \in 1..(i - 1) : query[j].key /= key].value
    ELSE ""

\* A helloHandler that greets the name as it came.
helloHandlerNoDefault(req) ==
    RouterResponse(200, "Hello, " \o Get(req.query, "name"))

helloHandler(req) ==
    RouterResponse(200, "Hello, " \o (IF Get(req.query, "name") = ""
                                       THEN "world"
                                       ELSE Get(req.query, "name")))

\* The loop of io.ReadAll: Read appends up to MaxRead bytes of what is left
\* to buf, until the body is at its end.
RECURSIVE ReadAllLoop(_, _)
ReadAllLoop(buf, rest) ==
    IF rest = <<>>
    THEN buf
    ELSE IF Len(rest) <= MaxRead
    THEN ReadAllLoop(buf \o rest, <<>>)
    ELSE ReadAllLoop(buf \o SubSeq(rest, 1, MaxRead),
                     SubSeq(rest, MaxRead + 1, Len(rest)))

\* io.ReadAll(r.Body)
ReadAll(body) ==
    IF body.fails
    THEN [data |-> <<>>, err |-> "unexpected EOF"]
    ELSE [data |-> ReadAllLoop(<<>>, body.data), err |-> "nil"]

echoHandler(req) ==
    IF ReadAll(req.body).err /= "nil"
    THEN RouterResponse(400, "read error")
    ELSE RouterResponse(200, ReadAll(req.body).data)

\* The mux of SetupRouter: the handler registered for the path, or 404.
SetupRouter(req) ==
    CASE req.path = "/hello" -> helloHandler(req)
      [] req.path = "/echo" -> echoHandler(req)
      [] OTHER -> RouterResponse(404, "404 page not found")

NoRouterResponse == RouterResponse(0, "")

InitRouter ==
    /\ routerReq \in RouterRequests
    /\ routerResp = NoRouterResponse

\* handler.ServeHTTP(rr, req)
ServeHTTP ==
    /\ routerResp = NoRouterResponse
    /\ routerResp' = SetupRouter(routerReq)
    /\ UNCHANGED routerReq
    /\ UNCHANGED notRouterVars

\* The router is given no request.
RouterIdle ==
    /\ routerReq = RouterRequest("GET", "/hello", <<>>, RouterBody(<<>>, FALSE))
    /\ routerResp = NoRouterResponse

(***************************************************************************)
(* Part 7: the Bubble Tea program in 03_std_lib/01_fileio_and_json/        *)
(* fileio_json.go: the model is the counter; the runtime calls Update with *)
(* every message it receives, until the quit command takes effect.         *)
(***************************************************************************)
\* The program is given at most MaxMsgs keys that count ("up", "k", "down",
\* "j"), and any number of other messages.
MaxMsgs == 4

\* tea.KeyMsg, by its String().
KeyMsg(key) == [type |-> "KeyMsg", key |-> key]

\* A message that is no key, such as tea.WindowSizeMsg.
WindowSizeMsg == [type |-> "WindowSizeMsg", key |-> ""]

Keys == {"up", "k", "down", "j", "q", "ctrl+c", "x", "enter"}

Msgs == {KeyMsg(key) : key \in Keys} \cup {WindowSizeMsg}

NoMsg == [type |-> "", key |-> ""]

\* An Update that takes "j" for an increment.
UpdateJIncrements(m, msg) ==
    IF msg.type = "KeyMsg"
    THEN CASE msg.key \in {"q", "ctrl+c"} -> [model |-> m, cmd |-> "tea.Quit"]
           [] msg.key \in {"up", "k", "j"} -> [model |-> m + 1, cmd |-> "nil"]
           [] msg.key \in {"down"} -> [model |-> m - 1, cmd |-> "nil"]
           [] OTHER -> [model |-> m, cmd |-> "nil"]
    ELSE [model |-> m, cmd |-> "nil"]

\* func (m model) Update(msg tea.Msg) (tea.Model, tea.Cmd)
Update(m, msg) ==
    IF msg.type = "KeyMsg"
    THEN CASE msg.key \in {"q", "ctrl+c"} -> [model |-> m, cmd |-> "tea.Quit"]
           [] msg.key \in {"up", "k"} -> [model |-> m + 1, cmd |-> "nil"]
           [] msg.key \in {"down", "j"} -> [model |-> m - 1, cmd |-> "nil"]
           [] OTHER -> [model |-> m, cmd |-> "nil"]
    ELSE [model |-> m, cmd |-> "nil"]

\* tea.NewProgram(model(0))
InitTea ==
    /\ teaModel = 0
    /\ teaPrev = 0
    /\ teaMsg = NoMsg
    /\ teaCmd = "nil"
    /\ teaQuit = "no"
    /\ teaUps = 0
    /\ teaDowns = 0

\* The runtime passes a message to Update and keeps the model it returns;
\* a tea.Quit command will end the program.
TeaUpdate(msg) ==
    /\ teaQuit /= "done"
    /\ teaUps + teaDowns < MaxMsgs
    /\ teaPrev' = teaModel
    /\ teaMsg' = msg
    /\ teaModel' = Update(teaModel, msg).model
    /\ teaCmd' = Update(teaModel, msg).cmd
    /\ teaQuit' = IF Update(teaModel, msg).cmd = "tea.Quit" THEN "pending" ELSE teaQuit
    /\ teaUps' = IF msg \in {KeyMsg("up"), KeyMsg("k")} THEN teaUps + 1 ELSE teaUps
    /\ teaDowns' = IF msg \in {KeyMsg("down"), KeyMsg("j")}
                   THEN teaDowns + 1 ELSE teaDowns
    /\ UNCHANGED notTeaVars

\* The quit message reaches the runtime: p.Start() returns.
TeaQuitMsg ==
    /\ teaQuit = "pending"
    /\ teaQuit' = "done"
    /\ UNCHANGED <<teaModel, teaPrev, teaMsg, teaCmd, teaUps, teaDowns>>
    /\ UNCHANGED notTeaVars

(***************************************************************************)
(* Part 8: package mathutil (04_Tooling_testing_and_code_quality/          *)
(* 01_testing): one call of Add or Mul.                                    *)
(***************************************************************************)
\* The arguments range over -MaxOperand..MaxOperand, where sums and
\* products are far from the ends of int.
MaxOperand == 3

Operands == (0 - MaxOperand)..MaxOperand

\* func Add(a, b int) int
MathutilAdd(a, b) == a + b

\* A Mul that adds.
MulAdds(a, b) == a + b

\* func Mul(a, b int) int
Mul(a, b) == a * b

InitMath ==
    /\ mathA \in Operands
    /\ mathB \in Operands
    /\ mathFn = ""
    /\ mathGot = 0

\* got := Add(tc.a, tc.b)
CallMathutilAdd ==
    /\ mathFn = ""
    /\ mathFn' = "Add"
    /\ mathGot' = MathutilAdd(mathA, mathB)
    /\ UNCHANGED <<mathA, mathB>>
    /\ UNCHANGED notMathVars

\* got := Mul(c.a, c.b)
CallMul ==
    /\ mathFn = ""
    /\ mathFn' = "Mul"
    /\ mathGot' = Mul(mathA, mathB)
    /\ UNCHANGED <<mathA, mathB>>
    /\ UNCHANGED notMathVars

\* No function of mathutil is called.
MathIdle ==
    /\ mathA = 0
    /\ mathB = 0
    /\ mathFn = ""
    /\ mathGot = 0

(***************************************************************************)
(* Part 9: the errWriter of the error-handling example: Write, Printf and  *)
(* Err on an errWriter whose underlying io.Writer may fail.                *)
(***************************************************************************)
\* At most MaxEwCalls calls of Write and Printf are made.
MaxEwCalls == 3

\* The errors the underlying writer returns.
WriteErrors == {"short write", "closed pipe"}

\* What a call of the underlying writer's Write returns as its error.
WriteOutcomes == {"nil"} \cup WriteErrors

\* A call of ew.w.Write, made by a method of the errWriter.
UnderlyingWrite(by, err) == [by |-> by, err |-> err]

\* ew := &errWriter{w: w}
InitEw ==
    /\ ewErr = "nil"
    /\ ewW = <<>>
    /\ ewCalls = 0
    /\ ewRet = "nil"

\* ew.Write(p) after an error: it returns ew.err.
EwWriteSkipped ==
    /\ ewCalls < MaxEwCalls
    /\ ewErr /= "nil"
    /\ ewCalls' = ewCalls + 1
    /\ ewRet' = ewErr
    /\ UNCHANGED <<ewErr, ewW>>
    /\ UNCHANGED notEwVars

\* ew.Write(p): n, ew.err = ew.w.Write(p); return n, nil
EwWrite(err) ==
    /\ ewCalls < MaxEwCalls
    /\ ewErr = "nil"
    /\ ewCalls' = ewCalls + 1
    /\ ewW' = Append(ewW, UnderlyingWrite("Write", err))
    /\ ewErr' = err
    /\ ewRet' = "nil"
    /\ UNCHANGED notEwVars

\* ew.Printf(format, args...) after an error: it returns ew.err.
EwPrintfSkipped ==
    /\ ewCalls < MaxEwCalls
    /\ ewErr /= "nil"
    /\ ewCalls' = ewCalls + 1
    /\ ewRet' = ewErr
    /\ UNCHANGED <<ewErr, ewW>>
    /\ UNCHANGED notEwVars

\* ew.Printf(format, args...): return fmt.Fprintf(ew.w, format, args...);
\* Fprintf formats and calls ew.w.Write once.
EwPrintf(err) ==
    /\ ewCalls < MaxEwCalls
    /\ ewErr = "nil"
    /\ ewCalls' = ewCalls + 1
    /\ ewW' = Append(ewW, UnderlyingWrite("Printf", err))
    /\ ewRet' = err
    /\ UNCHANGED ewErr
    /\ UNCHANGED notEwVars

\* ew.Err()
Err == ewErr

(***************************************************************************)
(* Part 10: select_mutexes_waitgroups.go, lines 14-72. The workers send a  *)
(* result or an error to main on the unbuffered channels results and errs; *)
(* a goroutine closes done after wg.Wait(); main receives in a select.     *)
(***************************************************************************)
\* The number of workers (main sets workerCount := 6; nothing depends on
\* the value), and the most "waiting..." lines main is followed through.
workerCount == 3

MaxWaits == 1

SelWorkerIds == 1..workerCount

\* What main received of a worker: so many results, so many errors.
Got(res, err) == [res |-> res, err |-> err]

\* The state after main's start loop and go func() { wg.Wait(); ... }().
InitSel ==
    /\ selWorkers = [w \in SelWorkerIds |-> [pc |-> "sleep", failed |-> FALSE]]
    /\ selWg = workerCount
    /\ selDone = FALSE
    /\ selMain = "select"
    /\ selGot = [w \in SelWorkerIds |-> Got(0, 0)]
    /\ selDrained = 0
    /\ selWaits = 0

\* worker: after its sleep, rand.Intn(8) == 0 decides between the send on
\* errs and the send on results.
SelWorkerDecide(w, failed) ==
    /\ selWorkers[w].pc = "sleep"
    /\ selWorkers' = [selWorkers EXCEPT ![w] = [pc |-> "send", failed |-> failed]]
    /\ UNCHANGED <<selWg, selDone, selMain, selGot, selDrained, selWaits>>
    /\ UNCHANGED notSelVars

\* What main has received of w after w's send: one more error (errs) or one
\* more result (results).
Received(got, w) ==
    IF selWorkers[w].failed
    THEN [got EXCEPT ![w].err = @ + 1]
    ELSE [got EXCEPT ![w].res = @ + 1]

\* main's select takes case r := <-results or case e := <-errs: the send
\* of worker w and main's receive happen together.
SelMainReceive(w) ==
    /\ selMain = "select"
    /\ selWorkers[w].pc = "send"
    /\ selGot' = Received(selGot, w)
    /\ selWorkers' = [selWorkers EXCEPT ![w].pc = "return"]
    /\ UNCHANGED <<selWg, selDone, selMain, selDrained, selWaits>>
    /\ UNCHANGED notSelVars

\* worker returns: the deferred wg.Done().
SelWorkerDone(w) ==
    /\ selWorkers[w].pc = "return"
    /\ selWorkers' = [selWorkers EXCEPT ![w].pc = "done"]
    /\ selWg' = selWg - 1
    /\ UNCHANGED <<selDone, selMain, selGot, selDrained, selWaits>>
    /\ UNCHANGED notSelVars

\* A goroutine that closes done without waiting.
SelCloseDoneNoWait ==
    /\ ~selDone
    /\ selDone' = TRUE
    /\ UNCHANGED <<selWorkers, selWg, selMain, selGot, selDrained, selWaits>>
    /\ UNCHANGED notSelVars

\* go func() { wg.Wait(); close(done) }()
SelCloseDone ==
    /\ ~selDone
    /\ selWg = 0
    /\ selDone' = TRUE
    /\ UNCHANGED <<selWorkers, selWg, selMain, selGot, selDrained, selWaits>>
    /\ UNCHANGED notSelVars

\* main's select takes case <-time.After(300 * time.Millisecond).
SelMainTimeout ==
    /\ selMain = "select"
    /\ selWaits < MaxWaits
    /\ selWaits' = selWaits + 1
    /\ UNCHANGED <<selWorkers, selWg, selDone, selMain, selGot, selDrained>>
    /\ UNCHANGED notSelVars

\* main's select takes case <-done.
SelMainDone ==
    /\ selMain = "select"
    /\ selDone
    /\ selMain' = "drain"
    /\ UNCHANGED <<selWorkers, selWg, selDone, selGot, selDrained, selWaits>>
    /\ UNCHANGED notSelVars

\* The select of the drain loop: a receive from a worker that is sending,
\* or the default case, which ends the loop; then goto afterSelect.
SelMainDrain ==
    /\ selMain = "drain"
    /\ IF \E w \in SelWorkerIds : selWorkers[w].pc = "send"
       THEN \E w \in SelWorkerIds :
              /\ selWorkers[w].pc = "send"
              /\ selGot' = Received(selGot, w)
              /\ selWorkers' = [selWorkers EXCEPT ![w].pc = "return"]
              /\ selDrained' = selDrained + 1
              /\ UNCHANGED selMain
       ELSE /\ selMain' = "after"
            /\ UNCHANGED <<selWorkers, selGot, selDrained>>
    /\ UNCHANGED <<selWg, selDone, selWaits>>
    /\ UNCHANGED notSelVars

(***************************************************************************)
(* Part 11: goroutine_simple.go, lines 42-70. main starts goroutines that  *)
(* increment counter without synchronisation, waits for them and prints    *)
(* counter; then it does the same with safeCounter under a mutex.          *)
(***************************************************************************)
\* The number of goroutines of the first loop (100 in main) and of the
\* second loop (1000 in main).
RaceGoroutines == 3

SafeGoroutines == 3

\* A goroutine that is not started yet.
NotStarted == [pc |-> "none", tmp |-> 0]

InitGor ==
    /\ gorMain = [pc |-> "raceLoop", i |-> 0]
    /\ counter = 0
    /\ gorRace = [g \in 1..RaceGoroutines |-> NotStarted]
    /\ wgRace = 0
    /\ gorPrinted = -1
    /\ safeCounter = 0
    /\ gorMu = 0
    /\ gorSafe = [g \in 1..SafeGoroutines |-> NotStarted]
    /\ wgSafe = 0
    /\ gorSafePrinted = -1

\* The first loop: wgRace.Add(1); go func() { ... }()
GorStartRace ==
    /\ gorMain.pc = "raceLoop"
    /\ wgRace' = wgRace + 1
    /\ gorRace' = [gorRace EXCEPT ![gorMain.i + 1].pc = "read"]
    /\ gorMain' = IF gorMain.i + 1 < RaceGoroutines
                  THEN [gorMain EXCEPT !.i = @ + 1]
                  ELSE [pc |-> "raceWait", i |-> 0]
    /\ UNCHANGED <<counter, gorPrinted, safeCounter, gorMu, gorSafe, wgSafe,
                   gorSafePrinted>>
    /\ UNCHANGED notGorVars

\* counter++: the goroutine reads counter.
GorRaceRead(g) ==
    /\ gorRace[g].pc = "read"
    /\ gorRace' = [gorRace EXCEPT ![g] = [pc |-> "write", tmp |-> counter]]
    /\ UNCHANGED <<gorMain, counter, wgRace, gorPrinted, safeCounter, gorMu,
                   gorSafe, wgSafe, gorSafePrinted>>
    /\ UNCHANGED notGorVars

\* A goroutine that writes back what it read.
GorRaceWriteSame(g) ==
    /\ gorRace[g].pc = "write"
    /\ counter' = gorRace[g].tmp
    /\ gorRace' = [gorRace EXCEPT ![g] = [pc |-> "return", tmp |-> 0]]
    /\ UNCHANGED <<gorMain, wgRace, gorPrinted, safeCounter, gorMu, gorSafe,
                   wgSafe, gorSafePrinted>>
    /\ UNCHANGED notGorVars

\* counter++: the goroutine writes what it read, plus one.
GorRaceWrite(g) ==
    /\ gorRace[g].pc = "write"
    /\ counter' = gorRace[g].tmp + 1
    /\ gorRace' = [gorRace EXCEPT ![g] = [pc |-> "return", tmp |-> 0]]
    /\ UNCHANGED <<gorMain, wgRace, gorPrinted, safeCounter, gorMu, gorSafe,
                   wgSafe, gorSafePrinted>>
    /\ UNCHANGED notGorVars

\* The deferred wgRace.Done().
GorRaceDone(g) ==
    /\ gorRace[g].pc = "return"
    /\ wgRace' = wgRace - 1
    /\ gorRace' = [gorRace EXCEPT ![g].pc = "done"]
    /\ UNCHANGED <<gorMain, counter, gorPrinted, safeCounter, gorMu, gorSafe,
                   wgSafe, gorSafePrinted>>
    /\ UNCHANGED notGorVars

\* wgRace.Wait() returns; main prints counter.
GorRaceWait ==
    /\ gorMain.pc = "raceWait"
    /\ wgRace = 0
    /\ gorPrinted' = counter
    /\ gorMain' = [pc |-> "safeLoop", i |-> 0]
    /\ UNCHANGED <<counter, gorRace, wgRace, safeCounter, gorMu, gorSafe,
                   wgSafe, gorSafePrinted>>
    /\ UNCHANGED notGorVars

\* The second loop: wgSafe.Add(1); go func() { ... }()
GorStartSafe ==
    /\ gorMain.pc = "safeLoop"
    /\ wgSafe' = wgSafe + 1
    /\ gorSafe' = [gorSafe EXCEPT ![gorMain.i + 1].pc = "lock"]
    /\ gorMain' = IF gorMain.i + 1 < SafeGoroutines
                  THEN [gorMain EXCEPT !.i = @ + 1]
                  ELSE [pc |-> "safeWait", i |-> 0]
    /\ UNCHANGED <<counter, gorRace, wgRace, gorPrinted, safeCounter, gorMu,
                   gorSafePrinted>>
    /\ UNCHANGED notGorVars

\* A goroutine that does not wait for the mutex.
GorSafeLockNoWait(g) ==
    /\ gorSafe[g].pc = "lock"
    /\ gorMu' = g
    /\ gorSafe' = [gorSafe EXCEPT ![g].pc = "read"]
    /\ UNCHANGED <<gorMain, counter, gorRace, wgRace, gorPrinted, safeCounter,
                   wgSafe, gorSafePrinted>>
    /\ UNCHANGED notGorVars

\* mu.Lock()
GorSafeLock(g) ==
    /\ gorSafe[g].pc = "lock"
    /\ gorMu = 0
    /\ gorMu' = g
    /\ gorSafe' = [gorSafe EXCEPT ![g].pc = "read"]
    /\ UNCHANGED <<gorMain, counter, gorRace, wgRace, gorPrinted, safeCounter,
                   wgSafe, gorSafePrinted>>
    /\ UNCHANGED notGorVars

\* safeCounter++: the goroutine reads safeCounter.
GorSafeRead(g) ==
    /\ gorSafe[g].pc = "read"
    /\ gorSafe' = [gorSafe EXCEPT ![g] = [pc |-> "write", tmp |-> safeCounter]]
    /\ UNCHANGED <<gorMain, counter, gorRace, wgRace, gorPrinted, safeCounter,
                   gorMu, wgSafe, gorSafePrinted>>
    /\ UNCHANGED notGorVars

\* safeCounter++: the goroutine writes what it read, plus one.
GorSafeWrite(g) ==
    /\ gorSafe[g].pc = "write"
    /\ safeCounter' = gorSafe[g].tmp + 1
    /\ gorSafe' = [gorSafe EXCEPT ![g] = [pc |-> "unlock", tmp |-> 0]]
    /\ UNCHANGED <<gorMain, counter, gorRace, wgRace, gorPrinted, gorMu,
                   wgSafe, gorSafePrinted>>
    /\ UNCHANGED notGorVars

\* mu.Unlock()
GorSafeUnlock(g) ==
    /\ gorSafe[g].pc = "unlock"
    /\ gorMu' = 0
    /\ gorSafe' = [gorSafe EXCEPT ![g].pc = "return"]
    /\ UNCHANGED <<gorMain, counter, gorRace, wgRace, gorPrinted, safeCounter,
                   wgSafe, gorSafePrinted>>
    /\ UNCHANGED notGorVars

\* The deferred wgSafe.Done().
GorSafeDone(g) ==
    /\ gorSafe[g].pc = "return"
    /\ wgSafe' = wgSafe - 1
    /\ gorSafe' = [gorSafe EXCEPT ![g].pc = "done"]
    /\ UNCHANGED <<gorMain, counter, gorRace, wgRace, gorPrinted, safeCounter,
                   gorMu, gorSafePrinted>>
    /\ UNCHANGED notGorVars

\* wgSafe.Wait() returns; main prints safeCounter.
GorSafeWait ==
    /\ gorMain.pc = "safeWait"
    /\ wgSafe = 0
    /\ gorSafePrinted' = safeCounter
    /\ gorMain' = [pc |-> "after", i |-> 0]
    /\ UNCHANGED <<counter, gorRace, wgRace, gorPrinted, safeCounter, gorMu,
                   gorSafe, wgSafe>>
    /\ UNCHANGED notGorVars

(***************************************************************************)
(* Part 12: select_mutexes_waitgroups.go, lines 99-125. Goroutines send 1  *)
(* on the unbuffered channel updates; one goroutine adds up what it        *)
(* receives; main closes updates after wg3.Wait() and waits for            *)
(* doneSerial.                                                             *)
(***************************************************************************)
\* The number of sending goroutines and of the sends of each (10 and 10 in
\* main).
Producers == 3

SendsEach == 2

ProducerIds == 1..Producers

\* The state after go func() { for v := range updates ... }(): the
\* receiving goroutine is in its range loop, main before its loop.
InitSer ==
    /\ updates = [closed |-> FALSE]
    /\ serProducers = [p \in ProducerIds |-> [pc |-> "none", k |-> 0]]
    /\ wg3 = 0
    /\ serConsumer = [pc |-> "receive", sum |-> 0, v |-> 0]
    /\ serReported = -1
    /\ doneSerial = FALSE
    /\ serMain = "start"
    /\ serPanic = FALSE

\* The senders main has not started yet.
NotYetStarted == {p \in ProducerIds : serProducers[p].pc = "none"}

\* wg3.Add(1); go func() { ... }()
SerMainStart ==
    /\ serMain = "start"
    /\ LET p == CHOOSE q \in NotYetStarted : \A r \in NotYetStarted : q <= r
       IN /\ serProducers' = [serProducers EXCEPT ![p].pc = "send"]
          /\ serMain' = IF NotYetStarted = {p} THEN "wait" ELSE "start"
    /\ wg3' = wg3 + 1
    /\ UNCHANGED <<updates, serConsumer, serReported, doneSerial, serPanic>>
    /\ UNCHANGED notSerVars

\* updates <- 1, received by for v := range updates; on a closed channel
\* the send panics.
SerSend(p) ==
    /\ serProducers[p].pc = "send"
    /\ ~serPanic
    /\ IF updates.closed
       THEN /\ serPanic' = TRUE
            /\ UNCHANGED <<serProducers, serConsumer>>
       ELSE /\ serConsumer.pc = "receive"
            /\ serConsumer' = [serConsumer EXCEPT !.pc = "add", !.v = 1]
            /\ serProducers' =
                 [serProducers EXCEPT ![p] =
                    [pc |-> IF serProducers[p].k + 1 < SendsEach
                            THEN "send" ELSE "return",
                     k |-> serProducers[p].k + 1]]
            /\ UNCHANGED serPanic
    /\ UNCHANGED <<updates, wg3, serReported, doneSerial, serMain>>
    /\ UNCHANGED notSerVars

\* sum += v
SerAdd ==
    /\ serConsumer.pc = "add"
    /\ serConsumer' = [pc |-> "receive", sum |-> serConsumer.sum + serConsumer.v,
                       v |-> 0]
    /\ UNCHANGED <<updates, serProducers, wg3, serReported, doneSerial,
                   serMain, serPanic>>
    /\ UNCHANGED notSerVars

\* The sending goroutine returns: the deferred wg3.Done().
SerProducerDone(p) ==
    /\ serProducers[p].pc = "return"
    /\ serProducers' = [serProducers EXCEPT ![p].pc = "done"]
    /\ wg3' = wg3 - 1
    /\ UNCHANGED <<updates, serConsumer, serReported, doneSerial, serMain,
                   serPanic>>
    /\ UNCHANGED notSerVars

\* A main that does not wait for the senders.
SerMainNoWait ==
    /\ serMain = "wait"
    /\ serMain' = "close"
    /\ UNCHANGED <<updates, serProducers, wg3, serConsumer, serReported,
                   doneSerial, serPanic>>
    /\ UNCHANGED notSerVars

\* wg3.Wait() returns.
SerMainWait ==
    /\ serMain = "wait"
    /\ wg3 = 0
    /\ serMain' = "close"
    /\ UNCHANGED <<updates, serProducers, wg3, serConsumer, serReported,
                   doneSerial, serPanic>>
    /\ UNCHANGED notSerVars

\* close(updates)
SerMainClose ==
    /\ serMain = "close"
    /\ updates' = [closed |-> TRUE]
    /\ serMain' = "receive"
    /\ UNCHANGED <<serProducers, wg3, serConsumer, serReported, doneSerial,
                   serPanic>>
    /\ UNCHANGED notSerVars

\* The range loop ends on the closed channel; the goroutine prints sum.
SerReport ==
    /\ serConsumer.pc = "receive"
    /\ updates.closed
    /\ serReported' = serConsumer.sum
    /\ serConsumer' = [serConsumer EXCEPT !.pc = "close"]
    /\ UNCHANGED <<updates, serProducers, wg3, doneSerial, serMain, serPanic>>
    /\ UNCHANGED notSerVars

\* close(doneSerial)
SerCloseDone ==
    /\ serConsumer.pc = "close"
    /\ doneSerial' = TRUE
    /\ serConsumer' = [serConsumer EXCEPT !.pc = "done"]
    /\ UNCHANGED <<updates, serProducers, wg3, serReported, serMain, serPanic>>
    /\ UNCHANGED notSerVars

\* <-doneSerial
SerMainReceive ==
    /\ serMain = "receive"
    /\ doneSerial
    /\ serMain' = "after"
    /\ UNCHANGED <<updates, serProducers, wg3, serConsumer, serReported,
                   doneSerial, serPanic>>
    /\ UNCHANGED notSerVars

(***************************************************************************)
(* The specification of the pool                                           *)
(***************************************************************************)
Init == InitPool /\ InitRpc /\ InitHttp /\ ArithIdle /\ GreetIdle /\ RouterIdle /\ InitTea /\ MathIdle /\ InitEw
    /\ InitSel /\ InitGor /\ InitSer

Next ==
    \/ Timeout
    \/ MainStartWorker
    \/ MainStartDispatcherCollector
    \/ MainWait
    \/ MainCloseResults
    \/ MainSelectDone
    \/ MainSelectCtxDone
    \/ DispatcherClose
    \/ \E w \in WorkerIds : WorkerCancelled(w)
    \/ \E w \in WorkerIds : WorkerReceiveJob(w)
    \/ \E w \in WorkerIds : WorkerJobsClosed(w)
    \/ \E w \in WorkerIds : WorkerWork(w)
    \/ \E w \in WorkerIds : CollectorReceive(w)
    \/ CollectorReceiveClosed
    \/ CollectorCancelled

Spec == Init /\ [][Next]_vars

(***************************************************************************)
(* Fairness: the Go scheduler runs every goroutine that can take a step.   *)
(* The timer is not forced to fire: a run without cancellation is a run of *)
(* FairSpec in which Timeout never happens.                                *)
(***************************************************************************)
PoolFairness ==
    /\ WF_vars(MainStartWorker)
    /\ WF_vars(MainStartDispatcherCollector)
    /\ WF_vars(MainWait)
    /\ WF_vars(MainCloseResults)
    /\ WF_vars(MainSelectDone)
    /\ WF_vars(MainSelectCtxDone)
    /\ WF_vars(DispatcherClose)
    /\ WF_vars(CollectorReceiveClosed)
    /\ WF_vars(CollectorCancelled)
    /\ \A w \in 1..MaxWorkers :
         /\ WF_vars(WorkerCancelled(w))
         /\ WF_vars(WorkerReceiveJob(w))
         /\ WF_vars(WorkerJobsClosed(w))
         /\ WF_vars(WorkerWork(w))
         /\ WF_vars(CollectorReceive(w))

FairSpec == Init /\ [][Next]_vars /\ PoolFairness

(***************************************************************************)
(* Properties of the worker pool                                           *)
(***************************************************************************)
\* The Result the pool is to produce for job id.
Expected(id) == Result(id, 2 * id)

\* How many Results with this JobID the collector has received.
RECURSIVE CountOf(_, _)
CountOf(id, S) ==
    IF S = {} THEN 0
    ELSE LET res == CHOOSE x \in S : TRUE
         IN (IF res.JobID = id THEN CopiesIn(res, collected) ELSE 0)
            + CountOf(id, S \ {res})

ResultsFor(id) == CountOf(id, BagToSet(collected))

\* The workers that have received job id and not yet handed over its Result.
Holders(id) ==
    {w \in WorkerIds : workers[w].pc \in {"work", "send"} /\ workers[w].job.ID = id}

CollectorLoopOver == collector.pc \in {"signal", "exit"}

\* C1: as long as the cancellation signal has not fired, every Result the
\* collector has received is Result(id, 2 * id) of a job id in 1..numJobs,
\* no id was received twice, and when the collector's loop is over it has
\* received exactly numJobs Results, whose ids are exactly 1..numJobs.
C1NoCancelAllResults ==
    ~ctxDone =>
        /\ BagCardinality(collected) <= numJobs
        /\ \A res \in BagToSet(collected) :
              /\ res.JobID \in 1..numJobs
              /\ res.Value = 2 * res.JobID
              /\ CopiesIn(res, collected) = 1
        /\ CollectorLoopOver =>
              /\ BagCardinality(collected) = numJobs
              /\ BagToSet(collected) = {Expected(id) : id \in 1..numJobs}

C1Witness ==
    /\ ~ctxDone
    /\ collector.pc = "signal"
    /\ numWorkers = MaxWorkers
    /\ numJobs = MaxJobs
    /\ BagCardinality(collected) = MaxJobs

\* C2: whenever main reports Completed, the Result of every one of the
\* numJobs jobs has been received by the collector.
C2NoLostJobWhenCompleted ==
    outcome = "Completed" => \A id \in 1..numJobs : CopiesIn(Expected(id), collected) >= 1

\* C3: no state has a worker blocked forever in its send on results while
\* main is blocked in wg.Wait(): the collector, the only receiver, has
\* returned.
C3NoWorkerStuckInSend ==
    ~(/\ mainPc = "wait"
      /\ collector.pc = "exit"
      /\ \E w \in WorkerIds : workers[w].pc = "send")

\* C4: once the cancellation signal has fired, no worker takes a further
\* Job from the jobs channel.
C4NoJobTakenAfterCancel ==
    [][ctxDone =>
         \A w \in 1..MaxWorkers :
            ~(workers[w].pc = "select" /\ workers'[w].pc = "work")]_vars

\* C5: every Result the collector has observed carries the id of a job the
\* dispatcher has sent and a worker has received.
C5ResultsOfDispatchedJobs ==
    \A res \in BagToSet(collected) : res.JobID \in 1..(dispatcher.j - 1)

\* C6: if the collector had received all numJobs Results when the
\* cancellation signal fired, main reports Completed; main reports one of
\* the two outcomes and only as its last step.
C6CompletedWhenCollectedBeforeCancel ==
    /\ (mainPc = "exit" /\ rAtTimeout = numJobs) => outcome = "Completed"
    /\ outcome \in {"none", "Completed", "Cancelled"}
    /\ outcome /= "none" <=> mainPc = "exit"

\* C7: the jobs channel is closed only by the dispatcher, once, after all
\* numJobs jobs were sent, and nothing is sent on it afterwards: when the
\* channel is closed the dispatcher has ended with its counter at
\* numJobs + 1, and no close or send has panicked.
C7JobsClosedOnceAfterAllSends ==
    /\ panic = "none"
    /\ dispatcher.j \in 1..(numJobs + 1)
    /\ jobs.closed => (dispatcher.pc = "exit" /\ dispatcher.j = numJobs + 1)
    /\ dispatcher.pc \in {"close", "exit"} => dispatcher.j = numJobs + 1

C7Witness ==
    /\ jobs.closed
    /\ ctxDone
    /\ numJobs = MaxJobs
    /\ \E w \in WorkerIds : workers[w].pc = "work"

\* C8: for every job id, the workers holding the job and the Results sent
\* for it number at most one together: a job is held by at most one
\* worker, and yields at most one Result.
C8AtMostOneWorkerAndResultPerJob ==
    \A id \in 1..numJobs :
        /\ Cardinality(Holders(id)) + ResultsFor(id) <= 1
        /\ Cardinality(Holders(id)) = 1 => id < dispatcher.j

C8Witness ==
    /\ \E w1, w2 \in WorkerIds :
          /\ w1 /= w2
          /\ workers[w1].pc \in {"work", "send"}
          /\ workers[w2].pc \in {"work", "send"}
    /\ \E id \in 1..numJobs : ResultsFor(id) = 1

\* C9: in a fair run in which the cancellation signal never fires, main
\* ends with Completed, the jobs channel closed after numJobs sends, every
\* worker returned on the closed channel, and the WaitGroup at zero.
C9Completes ==
    ([]~ctxDone) =>
        <>(/\ outcome = "Completed"
           /\ mainPc = "exit"
           /\ jobs.closed
           /\ dispatcher.j = numJobs + 1
           /\ wg = 0
           /\ \A w \in WorkerIds : workers[w].exit = "closed")

C9Witness ==
    /\ ~ctxDone
    /\ outcome = "Completed"
    /\ numWorkers = MaxWorkers
    /\ numJobs = MaxJobs
    /\ \A w \in WorkerIds : workers[w].exit = "closed"

(***************************************************************************)
(* The specification of the rpc example: the client and the server of      *)
(* main.go on one connection. The pool does not run.                       *)
(***************************************************************************)
PoolNotRunning == InitPool /\ numWorkers = 1 /\ numJobs = 1

RpcInit == PoolNotRunning /\ InitRpc /\ InitHttp /\ ArithIdle /\ GreetIdle /\ RouterIdle /\ InitTea /\ MathIdle /\ InitEw
    /\ InitSel /\ InitGor /\ InitSer

NextRpc ==
    \/ ClientGo
    \/ ClientCallReturn
    \/ ClientWaitDone
    \/ ClientPrint
    \/ ServerReadRequest
    \/ \E req \in serving : ServerCall(req)
    \/ \E resp \in responding : ServerSendResponse(resp)
    \/ ClientInputRead
    \/ ClientInputDone

SpecRpc == RpcInit /\ [][NextRpc]_vars

(***************************************************************************)
(* Properties of the rpc example                                           *)
(***************************************************************************)
\* The lines of stdout printed with this format.
Printed(format) == {i \in DOMAIN stdout : stdout[i].format = format}

\* C10: every "Async Add(20, 30)" line the client has printed shows 50
\* and every "Async Multiply(7, 8)" line shows 56.
C10AsyncRepliesPrinted ==
    /\ \A i \in Printed("Async Add(20, 30) = %d") : stdout[i].value = 50
    /\ \A i \in Printed("Async Multiply(7, 8) = %d") : stdout[i].value = 56

(***************************************************************************)
(* The specification of the users API: clients send requests to /users on  *)
(* MaxClients connections. The pool and the rpc example do not run.        *)
(***************************************************************************)
HttpInit == PoolNotRunning /\ InitRpc /\ InitHttp /\ ArithIdle /\ GreetIdle /\ RouterIdle /\ InitTea /\ MathIdle /\ InitEw
    /\ InitSel /\ InitGor /\ InitSer

NextHttp ==
    \/ \E req \in Requests : HttpReject(req)
    \/ \E c \in ClientIds, req \in Requests : HttpAccept(c, req)
    \/ \E c \in ClientIds : HttpLock(c)
    \/ \E c \in ClientIds : HttpGetUsers(c)
    \/ \E c \in ClientIds : HttpAssignID(c)
    \/ \E c \in ClientIds : HttpAppend(c)
    \/ \E c \in ClientIds : HttpCreated(c)

SpecHttp == HttpInit /\ [][NextHttp]_vars

(***************************************************************************)
(* Properties of the users API                                             *)
(***************************************************************************)
\* The connections whose handler is between mu.Lock() and mu.Unlock() of
\* createUserHandler.
Creating == {c \in ClientIds : conns[c].pc \in {"assign", "append"}}

\* C11: the stored IDs are pairwise distinct at all times; whenever no
\* handler is inside the locked section of createUserHandler, users[i].ID
\* is i for every position i counted from 1 and nextID is len(users) + 1;
\* and the user of a 201 response is the user that was appended, with the
\* name of the request and the ID the server gave it, whatever id the
\* request body had.
C11UsersConsistent ==
    /\ \A i, j \in DOMAIN users : users[i].ID = users[j].ID => i = j
    /\ Creating = {} =>
         /\ \A i \in DOMAIN users : users[i].ID = i
         /\ nextID = Len(users) + 1
    /\ lastResp.status = 201 =>
         /\ lastResp.body.kind = "object"
         /\ lastResp.body.id.n \in DOMAIN users
         /\ Encode(users[lastResp.body.id.n]) = lastResp.body
         /\ lastResp.body.name = lastResp.req.body.name

\* Two users were created by requests served at the same time, and the
\* last one sent the id 7 in its body.
C11Witness ==
    /\ Len(users) = MaxUsers
    /\ lastResp.status = 201
    /\ lastResp.req.body.id = JNumber(7)
    /\ lastResp.body.id = JNumber(MaxUsers - 1)
    /\ Creating = {}

\* The body is one JSON value and nothing else.
ValidJSON(body) == body.kind \in {"array", "object"} /\ ~body.trailing

\* The body gives no name, or the empty one.
EmptyName(body) ==
    \/ body.kind /= "object"
    \/ body.name = JAbsent
    \/ body.name = JString("")

\* The status and the message the documented order of checks gives a request.
DocumentedResponse(req) ==
    IF req.method \notin {"GET", "POST"} THEN <<405, "Method not allowed">>
    ELSE IF req.method = "GET" THEN <<200, "">>
    ELSE IF req.contentType /= "application/json"
    THEN <<415, "Content-Type must be application/json">>
    ELSE IF ~ValidJSON(req.body) THEN <<400, "Invalid JSON">>
    ELSE IF EmptyName(req.body) THEN <<400, "Name is required">>
    ELSE <<201, "">>

\* C12: every response to a request to /users has the status and the message
\* of the first check of this order that the request fails: 405 for a method
\* other than GET and POST, 415 for a POST whose Content-Type is not
\* application/json, 400 "Invalid JSON" for a POST whose body is not valid
\* JSON, 400 "Name is required" for a POST with an empty name, and 201 for
\* every other POST.
C12ResponseDecision ==
    lastResp.status /= 0 =>
        <<lastResp.status, lastResp.msg>> = DocumentedResponse(lastResp.req)

(***************************************************************************)
(* The specification of single calls of ArithService: the caller chooses   *)
(* args and calls one method. Nothing else runs.                           *)
(***************************************************************************)
ArithInit == PoolNotRunning /\ InitRpc /\ InitHttp /\ InitArith /\ GreetIdle /\ RouterIdle /\ InitTea /\ MathIdle /\ InitEw
    /\ InitSel /\ InitGor /\ InitSer

NextArith ==
    \/ CallAdd
    \/ CallMultiply
    \/ CallPower
    \/ CallDivide

SpecArith == ArithInit /\ [][NextArith]_vars

(***************************************************************************)
(* Properties of ArithService                                              *)
(***************************************************************************)
\* C13: after Divide(args, &floatReply), for every A: when B = 0 the error
\* is "division by zero" and floatReply is what it was before the call;
\* when B /= 0 there is no error and floatReply is the quotient A / B.
C13DivideByZero ==
    arithMethod = "Divide" =>
        IF arithArgs.B = 0
        THEN /\ arithErr = "division by zero"
             /\ arithReply.float = arithReply0.float
        ELSE /\ arithErr = "nil"
             /\ arithReply.float.den /= 0
             /\ arithReply.float.num * arithArgs.B
                  = arithArgs.A * arithReply.float.den

\* Divide refused to divide by zero and left a floatReply of 2 alone.
C13Witness ==
    /\ arithMethod = "Divide"
    /\ arithArgs.B = 0
    /\ arithErr = "division by zero"
    /\ arithReply.float = Float(2, 1)

\* a multiplied by itself n times, for n >= 0.
RECURSIVE IntPow(_, _)
IntPow(a, n) == IF n = 0 THEN 1 ELSE a * IntPow(a, n - 1)

\* r is a raised to the power b: a^b for b >= 0, the inverse of a^(-b)
\* for b < 0.
IsPower(r, a, b) ==
    IF b >= 0 THEN r = IntPow(a, b) ELSE r * IntPow(a, 0 - b) = 1

\* C18: for every A and B of -MaxArg..MaxArg, Add leaves A + B in reply,
\* Multiply leaves A * B, Power leaves A raised to the power B (1 when
\* B = 0), and each returns no error.
C18AddMultiplyPower ==
    /\ arithMethod \in {"Add", "Multiply", "Power"} => arithErr = "nil"
    /\ arithMethod = "Add" => arithReply.int = arithArgs.A + arithArgs.B
    /\ arithMethod = "Multiply" => arithReply.int = arithArgs.A * arithArgs.B
    /\ arithMethod = "Power" =>
         /\ IsPower(arithReply.int, arithArgs.A, arithArgs.B)
         /\ arithArgs.B = 0 => arithReply.int = 1

(***************************************************************************)
(* The specification of GreetUser: one call, with every store of Stores    *)
(* and every id of 0..MaxUserId+1.                                         *)
(***************************************************************************)
GreetInit == PoolNotRunning /\ InitRpc /\ InitHttp /\ ArithIdle /\ InitGreet /\ RouterIdle /\ InitTea /\ MathIdle /\ InitEw
    /\ InitSel /\ InitGor /\ InitSer

NextGreet == CallGreetUser

SpecGreet == GreetInit /\ [][NextGreet]_vars

(***************************************************************************)
(* Properties of GreetUser                                                 *)
(***************************************************************************)
\* The store's GetUser fails for this id: the mock is set up with an error,
\* the stub has no user of this id.
GetUserFails(store, id) ==
    IF store.kind = "mock"
    THEN store.getErr /= "nil"
    ELSE ~\E u \in store.users : u.ID = id

\* What the store holds and is set up to return, without its record of calls.
Contents(store) == <<store.kind, store.users, store.getReturn, store.getErr>>

\* C14: whenever GreetUser(store, id) returns without error, the greeting
\* is "Hello, " followed by the name of the user the store returned (the
\* mock's getReturn, the stub's user of that id), GreetUser called
\* store.GetUser exactly once, with id, and did not call SaveUser.
C14GreetUserSuccess ==
    (greetCalled /\ greetOut.err = "nil") =>
        /\ greetOut.calls = <<StoreCall("GetUser", greetId)>>
        /\ IF greetStore0.kind = "mock"
           THEN /\ greetOut.greeting = "Hello, " \o greetStore0.getReturn.Name
                /\ greetStore.getCalls = <<greetId>>
                /\ greetStore.saveCalls = <<>>
           ELSE /\ \E u \in greetStore0.users :
                     /\ u.ID = greetId
                     /\ greetOut.greeting = "Hello, " \o u.Name
                /\ greetStore.users = greetStore0.users

\* The mock returned Bob for id 2 and GreetUser greeted Bob.
C14Witness ==
    /\ greetCalled
    /\ greetOut.err = "nil"
    /\ greetStore0.kind = "mock"
    /\ greetId = 2
    /\ greetOut.greeting = "Hello, Bob"
    /\ greetStore.getCalls = <<2>>

\* C15: whenever the store's GetUser fails for the id, GreetUser returns
\* that error ("db down" of the mock, "not found" of the stub) and the
\* empty greeting, and the store holds what it held before the call.
C15GreetUserError ==
    (greetCalled /\ GetUserFails(greetStore0, greetId)) =>
        /\ greetOut.err = IF greetStore0.kind = "mock"
                          THEN greetStore0.getErr ELSE "not found"
        /\ greetOut.err /= "nil"
        /\ greetOut.greeting = ""
        /\ Contents(greetStore) = Contents(greetStore0)

\* The stub had Alice under 1 only; GreetUser was called with id 2.
C15Witness ==
    /\ greetCalled
    /\ greetStore0 = StubStore({UsersUser(1, "Alice")})
    /\ greetId = 2
    /\ greetOut.err = "not found"
    /\ greetOut.greeting = ""

(***************************************************************************)
(* The specification of the router: one request of RouterRequests.         *)
(***************************************************************************)
RouterInit ==
    PoolNotRunning /\ InitRpc /\ InitHttp /\ ArithIdle /\ GreetIdle /\ InitRouter /\ InitTea /\ MathIdle /\ InitEw
    /\ InitSel /\ InitGor /\ InitSer

NextRouter == ServeHTTP

SpecRouter == RouterInit /\ [][NextRouter]_vars

(***************************************************************************)
(* Properties of the router                                                *)
(***************************************************************************)
\* The positions of the query's name parameters.
NameParams(query) == {i \in DOMAIN query : query[i].key = "name"}

\* C16: the response to POST /echo, when the body could be read, has status
\* 200 and the bytes of the request body as its body, for every payload;
\* the response to GET /hello has status 200 and the body "Hello, " + name,
\* where name is "world" when the query has no name parameter or an empty
\* one, and the (first) name parameter otherwise.
C16EchoAndHello ==
    routerResp.status /= 0 =>
        /\ (/\ routerReq.method = "POST"
            /\ routerReq.path = "/echo"
            /\ ~routerReq.body.fails) =>
               /\ routerResp.status = 200
               /\ routerResp.body = routerReq.body.data
        /\ (routerReq.method = "GET" /\ routerReq.path = "/hello") =>
               /\ routerResp.status = 200
               /\ \/ /\ NameParams(routerReq.query) = {}
                     /\ routerResp.body = "Hello, world"
                  \/ \E i \in NameParams(routerReq.query) :
                       /\ \A j \in NameParams(routerReq.query) : i <= j
                       /\ routerReq.query[i].value = ""
                       /\ routerResp.body = "Hello, world"
                  \/ \E i \in NameParams(routerReq.query) :
                       /\ \A j \in NameParams(routerReq.query) : i <= j
                       /\ routerReq.query[i].value /= ""
                       /\ routerResp.body = "Hello, " \o routerReq.query[i].value

\* A payload of MaxBody bytes, longer than one Read, was echoed.
C16Witness ==
    /\ routerReq.method = "POST"
    /\ routerReq.path = "/echo"
    /\ Len(routerReq.body.data) = MaxBody
    /\ ~routerReq.body.fails
    /\ routerResp.status = 200
    /\ routerResp.body = routerReq.body.data

(***************************************************************************)
(* The specification of the Bubble Tea program                             *)
(***************************************************************************)
TeaInit ==
    PoolNotRunning /\ InitRpc /\ InitHttp /\ ArithIdle /\ GreetIdle /\ RouterIdle /\ InitTea /\ MathIdle /\ InitEw
    /\ InitSel /\ InitGor /\ InitSer

NextTea ==
    \/ \E msg \in Msgs : TeaUpdate(msg)
    \/ TeaQuitMsg

SpecTea == TeaInit /\ [][NextTea]_vars

(***************************************************************************)
(* Properties of the Bubble Tea program                                    *)
(***************************************************************************)
\* C17: the counter, 0 at the start, is the number of "up" and "k" keys
\* minus the number of "down" and "j" keys that Update was given; an Update
\* with "q" or "ctrl+c" returned tea.Quit and the counter it was given; an
\* Update with any other key or with a message that is no key returned no
\* command and the counter it was given.
C17CounterFollowsKeys ==
    /\ teaModel = teaUps - teaDowns
    /\ teaMsg \in {KeyMsg("q"), KeyMsg("ctrl+c")} =>
         teaCmd = "tea.Quit" /\ teaModel = teaPrev
    /\ (/\ teaMsg /= NoMsg
        /\ teaMsg \notin {KeyMsg(key) : key \in {"up", "k", "down", "j", "q", "ctrl+c"}}) =>
         teaCmd = "nil" /\ teaModel = teaPrev
    /\ teaMsg \in {KeyMsg(key) : key \in {"up", "k", "down", "j"}} => teaCmd = "nil"

\* Two increments and a decrement, then "q": the counter is 1 and the quit
\* command was returned.
C17Witness ==
    /\ teaUps = 2
    /\ teaDowns = 1
    /\ teaModel = 1
    /\ teaMsg = KeyMsg("q")
    /\ teaCmd = "tea.Quit"

(***************************************************************************)
(* The specification of mathutil: one call with arguments of Operands.     *)
(***************************************************************************)
MathInit ==
    /\ PoolNotRunning /\ InitRpc /\ InitHttp /\ ArithIdle /\ GreetIdle
    /\ RouterIdle /\ InitTea /\ InitMath /\ InitEw
    /\ InitSel /\ InitGor /\ InitSer

NextMath ==
    \/ CallMathutilAdd
    \/ CallMul

SpecMath == MathInit /\ [][NextMath]_vars

(***************************************************************************)
(* Properties of mathutil                                                  *)
(***************************************************************************)
\* The sum, by counting b up or down from a.
RECURSIVE SumByCounting(_, _)
SumByCounting(a, b) ==
    IF b = 0 THEN a
    ELSE IF b > 0 THEN SumByCounting(a, b - 1) + 1
    ELSE SumByCounting(a, b + 1) - 1

\* The product, by adding a to itself or taking it away b times.
RECURSIVE ProductByAdding(_, _)
ProductByAdding(a, b) ==
    IF b = 0 THEN 0
    ELSE IF b > 0 THEN ProductByAdding(a, b - 1) + a
    ELSE ProductByAdding(a, b + 1) - a

\* C19: for all a and b of -MaxOperand..MaxOperand, zero and the negative
\* values included, Add(a, b) is the sum a + b and Mul(a, b) is the
\* product a * b.
C19AddAndMul ==
    /\ mathFn = "Add" => mathGot = SumByCounting(mathA, mathB)
    /\ mathFn = "Mul" => mathGot = ProductByAdding(mathA, mathB)

\* The case {-2, 3, -6} of TestMul.
C19Witness ==
    /\ mathFn = "Mul"
    /\ mathA = -2
    /\ mathB = 3
    /\ mathGot = -6

(***************************************************************************)
(* The specification of the errWriter: any sequence of up to MaxEwCalls    *)
(* calls of Write and Printf, each underlying write failing or not.        *)
(***************************************************************************)
EwInit ==
    /\ PoolNotRunning /\ InitRpc /\ InitHttp /\ ArithIdle /\ GreetIdle
    /\ RouterIdle /\ InitTea /\ MathIdle /\ InitEw
    /\ InitSel /\ InitGor /\ InitSer

NextEw ==
    \/ EwWriteSkipped
    \/ \E err \in WriteOutcomes : EwWrite(err)
    \/ EwPrintfSkipped
    \/ \E err \in WriteOutcomes : EwPrintf(err)

SpecEw == EwInit /\ [][NextEw]_vars

(***************************************************************************)
(* Properties of the errWriter                                             *)
(***************************************************************************)
\* The calls of the underlying writer that failed.
Failed == {i \in DOMAIN ewW : ewW[i].err /= "nil"}

\* C20: after any sequence of Write and Printf calls, Err() is the error
\* of the first call of the underlying writer that failed, nil if none
\* failed, and the underlying writer was not called again after the first
\* call that failed.
C20ErrWriterAccumulates ==
    /\ Failed = {} => Err = "nil"
    /\ \A i \in Failed :
         /\ (\A j \in Failed : i <= j) => Err = ewW[i].err
         /\ i = Len(ewW)

(***************************************************************************)
(* The specification of the select loop. The Go scheduler runs every       *)
(* goroutine that can take a step; the timer of time.After need not fire.  *)
(***************************************************************************)
SelInit ==
    /\ PoolNotRunning /\ InitRpc /\ InitHttp /\ ArithIdle /\ GreetIdle
    /\ RouterIdle /\ InitTea /\ MathIdle /\ InitEw
    /\ InitSel /\ InitGor /\ InitSer

NextSel ==
    \/ \E w \in SelWorkerIds, failed \in BOOLEAN : SelWorkerDecide(w, failed)
    \/ \E w \in SelWorkerIds : SelMainReceive(w)
    \/ \E w \in SelWorkerIds : SelWorkerDone(w)
    \/ SelCloseDone
    \/ SelMainTimeout
    \/ SelMainDone
    \/ SelMainDrain

SelFairness ==
    /\ \A w \in 1..workerCount :
         /\ WF_vars(\E failed \in BOOLEAN : SelWorkerDecide(w, failed))
         /\ WF_vars(SelMainReceive(w))
         /\ WF_vars(SelWorkerDone(w))
    /\ WF_vars(SelCloseDone)
    /\ WF_vars(SelMainDone)
    /\ WF_vars(SelMainDrain)

SpecSel == SelInit /\ [][NextSel]_vars /\ SelFairness

(***************************************************************************)
(* Properties of the select loop                                           *)
(***************************************************************************)
\* The messages main has received.
SelTotal(n) == n = Cardinality({w \in SelWorkerIds : selGot[w].res + selGot[w].err = 1})

\* No worker has delivered more than one message, a worker that delivered
\* has delivered the error if it failed and the result if it did not, done
\* is closed and left by main only when every worker has delivered its one
\* message, and the drain loop has received nothing.
SelDelivery ==
    /\ \A w \in SelWorkerIds :
         /\ selGot[w].res + selGot[w].err <= 1
         /\ selWorkers[w].pc \in {"return", "done"} =>
              selGot[w] = IF selWorkers[w].failed THEN Got(0, 1) ELSE Got(1, 0)
         /\ selWorkers[w].pc \in {"sleep", "send"} => selGot[w] = Got(0, 0)
    /\ (selDone \/ selMain /= "select") =>
         /\ SelTotal(workerCount)
         /\ \A w \in SelWorkerIds : selWorkers[w].pc = "done"
    /\ selDrained = 0

\* C21: each of the workerCount workers delivers exactly one message to
\* main, the error if it failed and the result otherwise, never both; main
\* has received all workerCount messages before done is closed, so the
\* drain loop receives nothing; and main's receive loop always ends, through
\* the done case.
C21OneMessagePerWorker == []SelDelivery /\ <>(selMain = "after")

\* main left the loop after a "waiting..." line, with the error of worker
\* 1 and the results of the others.
C21Witness ==
    /\ selMain = "after"
    /\ selWaits = MaxWaits
    /\ selGot[1] = Got(0, 1)
    /\ \A w \in SelWorkerIds \ {1} : selGot[w] = Got(1, 0)

(***************************************************************************)
(* The specification of goroutine_simple's two counters.                   *)
(***************************************************************************)
GorInit ==
    /\ PoolNotRunning /\ InitRpc /\ InitHttp /\ ArithIdle /\ GreetIdle
    /\ RouterIdle /\ InitTea /\ MathIdle /\ InitEw
    /\ InitSel /\ InitGor /\ InitSer

NextGor ==
    \/ GorStartRace
    \/ \E g \in 1..RaceGoroutines : GorRaceRead(g)
    \/ \E g \in 1..RaceGoroutines : GorRaceWrite(g)
    \/ \E g \in 1..RaceGoroutines : GorRaceDone(g)
    \/ GorRaceWait
    \/ GorStartSafe
    \/ \E g \in 1..SafeGoroutines : GorSafeLock(g)
    \/ \E g \in 1..SafeGoroutines : GorSafeRead(g)
    \/ \E g \in 1..SafeGoroutines : GorSafeWrite(g)
    \/ \E g \in 1..SafeGoroutines : GorSafeUnlock(g)
    \/ \E g \in 1..SafeGoroutines : GorSafeDone(g)
    \/ GorSafeWait

SpecGor == GorInit /\ [][NextGor]_vars

\* The goroutines of the first loop that have read counter and not yet
\* written it.
InIncrement == {g \in 1..RaceGoroutines : gorRace[g].pc = "write"}

\* The goroutines of the first loop that have written counter.
Incremented == {g \in 1..RaceGoroutines : gorRace[g].pc \in {"return", "done"}}

\* C22: the unsynchronised counter++ can lose updates but not all of them:
\* counter never exceeds the number of goroutines that have written it, it
\* is at least 1 once one of them has, and the value main prints after
\* wgRace.Wait() is printed when all of them have written and lies in
\* 1..RaceGoroutines.
C22RacePrintsOneToN ==
    /\ counter <= Cardinality(Incremented)
    /\ Incremented /= {} => counter >= 1
    /\ gorPrinted /= -1 =>
         /\ Cardinality(Incremented) = RaceGoroutines
         /\ gorPrinted \in 1..RaceGoroutines

\* main printed less than the number of goroutines it started: an update
\* was lost.
C22Witness ==
    /\ gorPrinted /= -1
    /\ gorPrinted < RaceGoroutines

\* The goroutines of the second loop between mu.Lock() and mu.Unlock().
InCritical ==
    {g \in 1..SafeGoroutines : gorSafe[g].pc \in {"read", "write", "unlock"}}

\* C23: at most one goroutine is between mu.Lock() and mu.Unlock(), and
\* the value of safeCounter main reads after wgSafe.Wait() is the number of
\* goroutines it started.
C23MutexCounts ==
    /\ Cardinality(InCritical) <= 1
    /\ gorSafePrinted /= -1 => gorSafePrinted = SafeGoroutines

\* main printed safeCounter after the last goroutine it started returned.
C23Witness ==
    /\ gorMain.pc = "after"
    /\ gorSafePrinted = SafeGoroutines
    /\ gorSafe[SafeGoroutines].pc = "done"

(***************************************************************************)
(* The specification of the channel-serialized updates.                    *)
(***************************************************************************)
SerInit ==
    /\ PoolNotRunning /\ InitRpc /\ InitHttp /\ ArithIdle /\ GreetIdle
    /\ RouterIdle /\ InitTea /\ MathIdle /\ InitEw
    /\ InitSel /\ InitGor /\ InitSer

NextSer ==
    \/ SerMainStart
    \/ \E p \in ProducerIds : SerSend(p)
    \/ SerAdd
    \/ \E p \in ProducerIds : SerProducerDone(p)
    \/ SerMainWait
    \/ SerMainClose
    \/ SerReport
    \/ SerCloseDone
    \/ SerMainReceive

SpecSer == SerInit /\ [][NextSer]_vars

\* The number of sends on updates that have completed.
SendsDone ==
    LET RECURSIVE Sum(_)
        Sum(P) == IF P = {} THEN 0
                  ELSE LET p == CHOOSE q \in P : TRUE
                       IN serProducers[p].k + Sum(P \ {p})
    IN Sum(ProducerIds)

\* C24: updates is closed only after every send has completed and no send
\* panics on the closed channel; the sum the receiving goroutine prints is
\* the number of sends, Producers * SendsEach; main is past <-doneSerial
\* only after that sum was printed.
C24SerializedSum ==
    /\ ~serPanic
    /\ updates.closed =>
         /\ SendsDone = Producers * SendsEach
         /\ \A p \in ProducerIds : serProducers[p].pc = "done"
    /\ serReported /= -1 => serReported = Producers * SendsEach
    /\ serMain = "after" => serReported /= -1 /\ doneSerial

\* main is past <-doneSerial, the sum of all sends was printed.
C24Witness ==
    /\ serMain = "after"
    /\ updates.closed
    /\ serReported = Producers * SendsEach
    /\ \A p \in ProducerIds : serProducers[p].k = SendsEach

=============================================================================
